---- MODULE Spec2Model ----
(***************************************************************************)
(* Shopify draft order -> Cin7 quote bridge.                               *)
(*                                                                         *)
(* The module models                                                       *)
(*   - the outbound request governor of                                    *)
(*     api/webhooks/shopify/draft_orders/create.js: the rate-limit log     *)
(*     cin7RecentRequests, the FIFO cin7Queue, the worker loop             *)
(*     runCin7Queue and the retrying caller cin7Request;                   *)
(*   - the control flow of the webhook handlers (create.js, src/server.js, *)
(*     api/flow-draft-to-core.ts) from the inbound request to its answer.  *)
(*                                                                         *)
(* Time is the wall clock Date.now() in milliseconds.  One action is one   *)
(* run of JavaScript between two suspension points (await), which the      *)
(* single-threaded event loop executes without interleaving.               *)
(***************************************************************************)
EXTENDS Integers, Sequences, FiniteSets, TLC

\* ------------------------------------------------------------------ bounds

\* cin7Request invocations started one by one (Spec)
MaxRequests == 3
\* failed attempts allowed in total while several requests compete (Spec)
MaxFailures == 1
\* cin7Request invocations started at the same instant (SpecBurst)
BurstSize == 50
\* number of such bursts (SpecBurst)
MaxBursts == 2
\* the clock advances freely up to MaxTime; later only to pending timers
MaxTime == 1000
\* the step of the free clock, in ms
TickMs == 500
\* handler invocations a process serves (SpecHandlers)
MaxCalls == 2
\* the days the clock of the ack-first handlers may reach
MaxDays == 2
\* the milliseconds past a whole day that clock may show
MaxOffset == 2
\* line items of a draft, tax lines of an order (SpecMapper)
MaxLineItems == 2
MaxTaxLines == 2
\* the amounts converted, in cents, besides 110.00 (SpecMapper)
MaxAmount == 200

\* ------------------------------------------------- constants of the program

\* CIN7_RATE_LIMITS.perSecond
PerSecond == 3
\* CIN7_RATE_LIMITS.perMinute
PerMinute == 60
\* the 1-second window of cin7DelayUntilAllowed
SecondMs == 1000
\* the 60-second window of pruneCin7Recent and cin7DelayUntilAllowed
MinuteMs == 60000
\* maxAttempts of cin7Request
MaxAttempts == 4
\* backoff: Math.min(5000, 500 * attempt + Math.floor(Math.random() * 250))
BackoffCap == 5000
BackoffBase == 500
JitterSpan == 250

Max(a, b) == IF a >= b THEN a ELSE b
Min(a, b) == IF a <= b THEN a ELSE b

\* A removal that leaves the element where it is.
RemoveNothing(s, i) == s

\* Remove the element at index i of sequence s.
RemoveAt(s, i) == SubSeq(s, 1, i - 1) \o SubSeq(s, i + 1, Len(s))

\* ------------------------------------------------------ network outcomes

\* The Retry-After header of an error response: absent, a number of seconds,
\* or a value that Number() does not parse (an HTTP date).
RetryAfterValues == {<<"absent">>, <<"seconds", 0>>, <<"seconds", 2>>, <<"date">>}

\* What axios(config) settles with.  status 0 stands for an error without a
\* response (err.response undefined: timeout, connection reset).
Outcomes ==
    {[status |-> 200, retryAfter |-> <<"absent">>],
     [status |-> 404, retryAfter |-> <<"absent">>],
     [status |-> 500, retryAfter |-> <<"absent">>],
     [status |-> 0, retryAfter |-> <<"absent">>]}
    \cup {[status |-> 429, retryAfter |-> ra] : ra \in RetryAfterValues}

\* axios resolves on 2xx and rejects on anything else.
IsSuccess(o) == o.status >= 200 /\ o.status < 300

\* Math.floor(Math.random() * 250): the extremes of 0 .. 249
Jitters == {0, JitterSpan - 1}

VARIABLES
    now,                  \* Date.now()
    cin7RecentRequests,   \* the rate-limit log: timestamps of dispatches
    cin7Queue,            \* queued tasks, head first
    cin7QueueProcessing,  \* the worker flag
    workers,              \* the runCin7Queue invocations that are suspended
    reqs,                 \* the cin7Request invocations, by id
    enqueued,             \* history: number of tasks pushed so far
    lastTicket,           \* history: ticket of the task dispatched last
    dispatchTimes,        \* history: Date.now() of every dispatch, in order
    env,                  \* the deployment: the handler served and process.env
    calls,                \* the handler invocations, by id
    processedEvents,      \* the idempotency store: pairs <<event id, time>>
    draft,                \* the draft order handed to the mapper
    quote,                \* what the mapper returned for it
    resolved,             \* what resolveDefaultInclusiveTaxRate returned for it
    conversion,           \* an amount and a rate, and what they convert to
    verification          \* a secret, a body and a header, and the verdict on them

\* The variables of the mapper, of its arithmetic and of the other functions
\* that are applied to an input of their own.
mapperVars == <<draft, quote, resolved, conversion, verification>>

vars == <<now, cin7RecentRequests, cin7Queue, cin7QueueProcessing, workers,
          reqs, enqueued, lastTicket, dispatchTimes, env, calls,
          processedEvents, mapperVars>>

\* ------------------------------------------------------------ rate limiter

\* A pruning that also drops the entries that are exactly 60 s old.
pruneCin7RecentInclusive(recent, t) ==
    SelectSeq(recent, LAMBDA x : t - x < MinuteMs)

\* pruneCin7Recent(now): drop from the front while the head is older than 60 s.
\* The loop stops at the first entry that is not older.
pruneCin7Recent(recent, t) ==
    LET kept == {i \in DOMAIN recent : ~(t - recent[i] > MinuteMs)}
        first == IF kept = {} THEN Len(recent) + 1
                 ELSE CHOOSE i \in kept : \A j \in kept : i <= j
    IN  SubSeq(recent, first, Len(recent))

\* secWindow / minuteWindow: the entries strictly newer than the cutoff.
InWindow(x, t, span) == x > t - span
WindowOf(recent, t, span) == SelectSeq(recent, LAMBDA x : InWindow(x, t, span))

\* A limit that lets one entry too many into the window before it delays.
LimitDelayOverfull(window, t, span, limit) ==
    IF Len(window) > limit THEN span - (t - window[1]) ELSE 0

\* One limit of cin7DelayUntilAllowed: when the window holds `limit` entries
\* or more, wait until its oldest entry leaves it.
LimitDelay(window, t, span, limit) ==
    IF Len(window) >= limit THEN span - (t - window[1]) ELSE 0

\* cin7DelayUntilAllowed(now), computed on the pruned log.
cin7DelayUntilAllowed(recent, t) ==
    LET pruned == pruneCin7Recent(recent, t)
        secWindow == WindowOf(pruned, t, SecondMs)
        minuteWindow == WindowOf(pruned, t, MinuteMs)
    IN  Max(Max(0, LimitDelay(secWindow, t, SecondMs, PerSecond)),
            LimitDelay(minuteWindow, t, MinuteMs, PerMinute))

\* ------------------------------------------------------------ the queue

\* A queued task { fn, resolve, reject }: fn is one attempt of request req;
\* ticket is its position in the order of the pushes (history).
NoTask == [req |-> 0, ticket |-> 0]

\* The state the governor owns, as one record, so that the synchronous calls
\* scheduleCin7Request -> runCin7Queue -> loop body compose as functions.
Gov ==
    [recent |-> cin7RecentRequests, queue |-> cin7Queue,
     processing |-> cin7QueueProcessing, workers |-> workers,
     enqueued |-> enqueued, lastTicket |-> lastTicket,
     dispatchTimes |-> dispatchTimes]

SetGov(g) ==
    /\ cin7RecentRequests' = g.recent
    /\ cin7Queue' = g.queue
    /\ cin7QueueProcessing' = g.processing
    /\ workers' = g.workers
    /\ enqueued' = g.enqueued
    /\ lastTicket' = g.lastTicket
    /\ dispatchTimes' = g.dispatchTimes

\* A worker that takes the newest task instead (pop).
PopIndex(queue) == Len(queue)

\* cin7Queue.shift(): the index of the task the worker takes.
ShiftIndex(queue) == 1

\* A loop exit that leaves the flag set.
LeaveLoopFlagKept(g) == g

\* cin7QueueProcessing = false; after the while loop
LeaveLoop(g) == [g EXCEPT !.processing = FALSE]

\* The while loop of runCin7Queue from its test to the next suspension point:
\* it leaves (flag cleared) on an empty queue, sleeps when the limiter asks for
\* a delay, and otherwise shifts the head, records Date.now() and calls fn.
runCin7QueueLoop(g, t) ==
    IF Len(g.queue) = 0
    THEN LeaveLoop(g)
    ELSE LET waitMs == cin7DelayUntilAllowed(g.recent, t)
             pruned == pruneCin7Recent(g.recent, t)
             i == ShiftIndex(g.queue)
             task == g.queue[i]
         IN  IF waitMs > 0
             THEN [g EXCEPT !.recent = pruned,
                            !.workers = Append(@, [pc |-> "sleeping",
                                                   wakeAt |-> t + waitMs,
                                                   task |-> NoTask])]
             ELSE [g EXCEPT !.recent = Append(pruned, t),
                            !.queue = RemoveAt(@, i),
                            !.workers = Append(@, [pc |-> "awaiting",
                                                   wakeAt |-> 0,
                                                   task |-> task]),
                            !.lastTicket = task.ticket,
                            !.dispatchTimes = Append(@, t)]

\* A runCin7Queue without its guard.
NoWorkerGuard(g) == FALSE

\* if (cin7QueueProcessing) return;
WorkerAlreadyRunning(g) == g.processing

\* runCin7Queue(): return at once when a worker is running, else become it.
runCin7Queue(g, t) ==
    IF WorkerAlreadyRunning(g)
    THEN g
    ELSE runCin7QueueLoop([g EXCEPT !.processing = TRUE], t)

\* A caller that calls fn itself: no queue, no worker, no entry in the log.
callFnDirectly(g, r, t) ==
    [g EXCEPT !.workers = Append(@, [pc |-> "awaiting", wakeAt |-> 0,
                                     task |-> [req |-> r,
                                               ticket |-> g.enqueued + 1]]),
              !.enqueued = @ + 1]

\* scheduleCin7Request(fn): push the task, then call runCin7Queue().
scheduleCin7Request(g, r, t) ==
    runCin7Queue([g EXCEPT !.queue = Append(@, [req |-> r,
                                                ticket |-> g.enqueued + 1]),
                           !.enqueued = @ + 1], t)

\* The tasks that are in flight: fn called, its promise not settled.
InFlight == {i \in DOMAIN workers : workers[i].pc = "awaiting"}

\* ------------------------------------------------------------ cin7Request

\* A test that takes every error status for a temporary one.
IsRetryableAnyError(status) == status >= 400

\* status === 429 || status >= 500 (status undefined, here 0, compares false)
IsRetryable(status) == status = 429 \/ status >= 500

\* retryAfterMs: Number(header) * 1000 when finite, else null (<<>>).
RetryAfterMs(o) ==
    IF o.retryAfter[1] = "seconds" THEN <<o.retryAfter[2] * 1000>> ELSE <<>>

\* A backoff that does not look at the Retry-After header.
BackoffComputedOnly(o, attempt, jitter) ==
    Min(BackoffCap, BackoffBase * attempt + jitter)

\* backoff = retryAfterMs ?? Math.min(5000, 500 * attempt + jitter)
Backoff(o, attempt, jitter) ==
    IF RetryAfterMs(o) # <<>>
    THEN RetryAfterMs(o)[1]
    ELSE Min(BackoffCap, BackoffBase * attempt + jitter)

\* A test that allows one attempt more.
MayRetryOnceMore(status, attempt) ==
    IsRetryable(status) /\ attempt <= MaxAttempts

\* if (status === 429 || status >= 500) { if (attempt < maxAttempts) ...
MayRetry(status, attempt) == IsRetryable(status) /\ attempt < MaxAttempts

\* The catch block of cin7Request for an attempt that failed with outcome o at
\* time t: sleep and go round the loop again, or break and throw lastErr.
\* failedAt and notBefore are history: when the attempt failed and the time
\* before which the sleep cannot end.
cin7RequestCatch(rec, o, jitter, t) ==
    IF MayRetry(o.status, rec.attempt)
    THEN [rec EXCEPT !.state = "backoff", !.lastErr = <<o>>, !.failedAt = t,
                     !.notBefore = t + Backoff(o, rec.attempt, jitter)]
    ELSE [rec EXCEPT !.state = "rejected", !.lastErr = <<o>>,
                     !.failedAt = 0, !.notBefore = 0, !.dispatchedAt = 0]

\* History: the statuses the attempts of the request have settled with, and
\* how many times task.resolve or task.reject has run for it.
NoteOutcome(rec, o) ==
    [rec EXCEPT !.seen = @ \cup {o.status}, !.settles = @ + 1]

\* return await scheduleCin7Request(...) when the attempt succeeded
cin7RequestReturn(rec, o) ==
    [rec EXCEPT !.state = "resolved", !.result = <<o>>,
                !.failedAt = 0, !.notBefore = 0, !.dispatchedAt = 0]

\* let attempt = 0; ... attempt += 1; the first scheduleCin7Request
NewRequest ==
    [attempt |-> 1, state |-> "scheduled", notBefore |-> 0, failedAt |-> 0,
     dispatchedAt |-> 0, dispatches |-> 0, settles |-> 0, seen |-> {},
     lastErr |-> <<>>, result |-> <<>>]

\* History: note in the request records the dispatch the governor g2 made
\* that g1 had not made (the loop body dispatches at most one task).
NoteDispatch(rs, g1, g2, t) ==
    IF Len(g2.dispatchTimes) = Len(g1.dispatchTimes)
    THEN rs
    ELSE LET r == g2.workers[Len(g2.workers)].task.req
         IN  [rs EXCEPT ![r].dispatches = @ + 1, ![r].dispatchedAt = t]

\* ------------------------------------------------------------ actions

\* The module state of create.js after import, and no call yet; the store of
\* the idempotent server is new Map(), and nothing has been mapped.
InitGovernor ==
    /\ now = 0
    /\ cin7RecentRequests = <<>>
    /\ cin7Queue = <<>>
    /\ cin7QueueProcessing = FALSE
    /\ workers = <<>>
    /\ reqs = <<>>
    /\ enqueued = 0
    /\ lastTicket = 0
    /\ dispatchTimes = <<>>
    /\ calls = <<>>
    /\ processedEvents = {}
    /\ draft = <<>>
    /\ quote = <<>>
    /\ resolved = <<>>
    /\ conversion = <<>>
    /\ verification = <<>>

\* create.js deployed with its secret and its allow-list configured.
Init ==
    /\ InitGovernor
    /\ env = [handler |-> "create", secretSet |-> TRUE, shopListSet |-> TRUE,
              credsSet |-> TRUE]

\* n callers invoke cin7Request(config, context) at the same instant, one
\* after the other without suspension: in each, attempt becomes 1 and the
\* first scheduleCin7Request runs synchronously.
RECURSIVE ScheduleEach(_, _, _, _)
ScheduleEach(g, r, n, t) ==
    IF n = 0 THEN g
    ELSE LET pushed == scheduleCin7Request(g, r, t)
         IN  \* the push is evaluated before the next caller runs
             IF pushed.enqueued > g.enqueued
             THEN ScheduleEach(pushed, r + 1, n - 1, t)
             ELSE g

StartRequests(n, limit) ==
    /\ Len(reqs) + n <= limit
    /\ LET g == ScheduleEach(Gov, Len(reqs) + 1, n, now)
       IN  /\ reqs' = NoteDispatch(reqs \o [k \in 1 .. n |-> NewRequest],
                                   Gov, g, now)
           /\ SetGov(g)
    /\ UNCHANGED <<now, env, calls, processedEvents, mapperVars>>

\* The timer of `await sleep(waitMs)` in runCin7Queue fires: `continue`.
WorkerWake(i) ==
    /\ workers[i].pc = "sleeping"
    /\ now >= workers[i].wakeAt
    /\ LET g == runCin7QueueLoop([Gov EXCEPT !.workers = RemoveAt(@, i)], now)
       IN  /\ reqs' = NoteDispatch(reqs, Gov, g, now)
           /\ SetGov(g)
    /\ UNCHANGED <<now, env, calls, processedEvents, mapperVars>>

\* History: the attempts of a request that have failed so far.
FailedAttempts(rec) ==
    IF rec.state \in {"backoff", "rejected"} THEN rec.attempt ELSE rec.attempt - 1

\* History: the failed attempts over all requests.
Failures(rs) ==
    Cardinality({p \in (DOMAIN rs) \X (1 .. MaxAttempts) :
                    p[2] <= FailedAttempts(rs[p[1]])})

\* A worker without the catch: the rejection of task.fn() leaves the loop.
afterFnUncaught(g, i, o, t) ==
    IF IsSuccess(o)
    THEN runCin7QueueLoop([g EXCEPT !.workers = RemoveAt(@, i)], t)
    ELSE [g EXCEPT !.workers = RemoveAt(@, i)]

\* try { task.resolve(await task.fn()) } catch (err) { task.reject(err) }:
\* whatever the call of worker i settled with, the loop goes round again.
afterFn(g, i, o, t) ==
    runCin7QueueLoop([g EXCEPT !.workers = RemoveAt(@, i)], t)

\* The call task.fn() of worker i settles with outcome o: task.resolve or
\* task.reject, the loop goes on to its next suspension point, and then the
\* continuation of cin7Request runs (return, or the catch block).  At most
\* `budget` attempts fail in a run.
Settle(i, o, jitter, budget) ==
    /\ workers[i].pc = "awaiting"
    /\ IsSuccess(o) \/ Failures(reqs) < budget
    /\ LET r == workers[i].task.req
           rec == NoteOutcome(reqs[r], o)
           after == IF IsSuccess(o)
                    THEN cin7RequestReturn(rec, o)
                    ELSE cin7RequestCatch(rec, o, jitter, now)
           g == afterFn(Gov, i, o, now)
       IN  /\ reqs' = NoteDispatch([reqs EXCEPT ![r] = after], Gov, g, now)
           /\ SetGov(g)
    /\ UNCHANGED <<now, env, calls, processedEvents, mapperVars>>

\* The timer of `await sleep(backoff)` in cin7Request fires: `continue`,
\* attempt += 1 and the next scheduleCin7Request.
RetryWake(r) ==
    /\ reqs[r].state = "backoff"
    /\ now >= reqs[r].notBefore
    /\ LET g == scheduleCin7Request(Gov, r, now)
       IN  /\ reqs' = NoteDispatch([reqs EXCEPT ![r].attempt = @ + 1,
                                                ![r].state = "scheduled"],
                                   Gov, g, now)
           /\ SetGov(g)
    /\ UNCHANGED <<now, env, calls, processedEvents, mapperVars>>

\* The deadlines of the pending timers.
Deadlines ==
    {workers[i].wakeAt : i \in {j \in DOMAIN workers : workers[j].pc = "sleeping"}}
    \cup {reqs[r].notBefore : r \in {q \in DOMAIN reqs : reqs[q].state = "backoff"}}

\* The clock advances to the next multiple of TickMs while below MaxTime, or
\* to the deadline of a pending timer.
NextGrid == ((now \div TickMs) + 1) * TickMs

Tick(t) ==
    /\ t > now
    /\ \/ t = NextGrid /\ t <= MaxTime
       \/ t \in Deadlines
    /\ now' = t
    /\ UNCHANGED <<cin7RecentRequests, cin7Queue, cin7QueueProcessing, workers,
                   reqs, enqueued, lastTicket, dispatchTimes, env, calls,
                   processedEvents, mapperVars>>

TickTargets == {NextGrid} \cup Deadlines

\* ------------------------------------------------------------ the handlers

\* A process serves one handler: create.js (the one that owns the governor),
\* src/server.js or api/flow-draft-to-core.ts.  secretSet is
\* SHOPIFY_WEBHOOK_SECRET, or FLOW_SHARED_SECRET for the flow handler;
\* shopListSet is SHOPIFY_WEBHOOK_ALLOWED_SHOP; credsSet the Cin7 credentials.
\* create.js only logs a missing secret; server.js throws on import without
\* its secret or credentials, so it never serves a call then.
Deployments ==
    {[handler |-> "create", secretSet |-> s, shopListSet |-> a,
      credsSet |-> TRUE] : s \in BOOLEAN, a \in BOOLEAN}
    \cup {[handler |-> "server", secretSet |-> TRUE, shopListSet |-> a,
           credsSet |-> TRUE] : a \in BOOLEAN}
    \cup {[handler |-> "flow", secretSet |-> s, shopListSet |-> FALSE,
           credsSet |-> c] : s \in BOOLEAN, c \in BOOLEAN}

\* Any environment a process may be started in.
StartupDeployments ==
    [handler : {"create", "server", "flow"}, secretSet : BOOLEAN,
     shopListSet : BOOLEAN, credsSet : BOOLEAN]

\* The import of the module succeeds and the process serves requests.
\* server.js throws without SHOPIFY_WEBHOOK_SECRET or without CIN7_USERNAME
\* and CIN7_API_KEY; create.js calls console.error and goes on; the flow
\* handler looks at its environment only per request.
Started(e) == e.handler = "server" => e.secretSet /\ e.credsSet

\* The parts of an inbound request.  A part has the value Unread until the
\* handler looks at it: what it never reads cannot influence it.
Unread == "unread"
Methods == {"GET", "POST", "PUT"}
\* x-shopify-shop-domain
ShopHeaders == {"absent", "other", "allowed"}
\* x-shopify-hmac-sha256, or X-Flow-Secret for the flow handler
SignatureHeaders == {"absent", "bad", "good"}
\* the body: not JSON, the JSON null, or a JSON object
Bodies == {"unparseable", "null", "object"}
\* line_items: missing, an array of objects, or anything else
LineItems == {"absent", "array", "malformed"}
YesNo == {"yes", "no"}
Presence == {"present", "absent"}

\* A handler invocation: what it has read, where it stands (pc), the status it
\* has answered with (0: none yet), the Cin7 calls it has made or enqueued
\* (downstream), the cin7Request it awaits (req), the cin7Request that looks
\* the contact up (lookup), what r.data[0] was, whether quote.memberId is set,
\* the status the last call to Cin7 ended with (omniStatus, 0: none),
\* the responses the handler has sent (sent), the Cin7 calls it had started
\* when it sent the last one (callsAtSend), whether an exception left it
\* (escaped) and the loop counter of fetchWithRetries (attempt).
NewCall ==
    [method |-> Unread, typed |-> Unread, shop |-> Unread, sig |-> Unread,
     body |-> Unread, items |-> Unread, tag |-> Unread,
     shippingLine |-> Unread, email |-> Unread, customerEmail |-> Unread,
     billingEmail |-> Unread, shippingEmail |-> Unread,
     pc |-> "entry", status |-> 0, downstream |-> 0, req |-> 0,
     lookup |-> 0, contact |-> Unread, memberId |-> "absent",
     omniStatus |-> 0, sent |-> 0, callsAtSend |-> 0, escaped |-> "no",
     eventId |-> Unread, attempt |-> 0]

\* res.status(st).send(...)
Send(c, st) ==
    [c EXCEPT !.status = st, !.sent = @ + 1, !.callsAtSend = c.downstream]

\* return res.status(st).send(...)
Answer(c, st) == [Send(c, st) EXCEPT !.pc = "done"]

\* An exception leaves the handler of create.js without a response of its
\* own: its promise rejects and the platform answers 500.
Thrown(c) == [c EXCEPT !.pc = "done", !.status = 500, !.escaped = "yes"]

\* allowedShop(headers)
allowedShop(e, c) == ~e.shopListSet \/ c.shop = "allowed"

\* The shop header is read only when an allow-list is configured.
ShopReads(e, c) ==
    IF e.shopListSet THEN {[c EXCEPT !.shop = h] : h \in ShopHeaders} ELSE {c}

\* No header carries a good signature when no secret is configured.
SigReads(e, c) ==
    {[c EXCEPT !.sig = h] :
        h \in IF e.secretSet THEN SignatureHeaders ELSE SignatureHeaders \ {"good"}}

\* verifyShopifyHmac(rawBody, headers): false without the header; createHmac
\* throws on an undefined secret and update on a body that is no Buffer.
verifyShopifyHmac(e, c) ==
    IF c.sig = "absent" THEN "false"
    ELSE IF ~e.secretSet \/ c.typed = "no" THEN "throws"
    ELSE IF c.sig = "good" THEN "true" ELSE "false"

\* a || b || ... read from the left: the first address present ends the chain.
RECURSIVE ReadEmails(_, _)
ReadEmails(c, chain) ==
    IF chain = <<>> THEN {c}
    ELSE {[c EXCEPT ![Head(chain)] = "present"]}
         \cup ReadEmails([c EXCEPT ![Head(chain)] = "absent"], Tail(chain))

\* A draft that resolves an email whatever it holds.
HasMemberEmailAlways(c, chain) == TRUE

\* quote.memberEmail is set
HasMemberEmail(c, chain) == \E i \in DOMAIN chain : c[chain[i]] = "present"

\* create.js: draft.email || cust.email || bill.email || ship.email
CreateEmailChain == <<"email", "customerEmail", "billingEmail", "shippingEmail">>
\* server.js: draft.email || cust.email
ServerEmailChain == <<"email", "customerEmail">>

\* const REQUIRED_DRAFT_TAG = "qteedy"
REQUIRED_DRAFT_TAG == "qteedy"

\* draft.tags is <<form, pieces>>: form "string" with the pieces between the
\* commas, "array" with the entries (null is the empty piece), or "absent" or
\* "number" without pieces.  A piece is <<word, case, padding>>: the word in
\* lower case, whether it is written in "lower" or "upper" case, and whether
\* it stands between "spaces" or "none".
\* parseTags(value): the entries of an array trimmed; the pieces of a string
\* trimmed, the empty ones dropped; nothing for any other value.
parseTags(value) ==
    LET trimmed == [i \in DOMAIN value[2] |->
                        <<value[2][i][1], value[2][i][2], "none">>]
    IN  IF value[1] = "array" THEN trimmed
        ELSE IF value[1] = "string"
        THEN SelectSeq(trimmed, LAMBDA t : t[1] # "")
        ELSE <<>>

\* A comparison of the tags as they are written.
draftHasTagCaseSensitive(d, tag) ==
    \E i \in DOMAIN parseTags(d.tags) :
        parseTags(d.tags)[i] = <<tag, "lower", "none">>

\* draftHasTag(draft, tag): some parsed tag equals the target in lower case.
\* The target, tag.trim().toLowerCase(), is not empty.
draftHasTag(d, tag) ==
    \E i \in DOMAIN parseTags(d.tags) :
        <<parseTags(d.tags)[i][1], "lower", parseTags(d.tags)[i][3]>>
            = <<tag, "lower", "none">>

\* create.js, inside the try: the tag test, the mapper and the email test.
\* With an email the handler goes on to the contact lookup.  The tags are
\* those of the draft delivered, when the run has fixed one, and have the
\* tag or not otherwise.
createMapped(c) ==
    UNION {LET t == [c EXCEPT !.tag = tg]
           IN  IF tg = "no" THEN {Answer(t, 200)}
               ELSE {IF HasMemberEmail(m, CreateEmailChain)
                     THEN [m EXCEPT !.pc = "lookup"]
                     ELSE Answer(m, 200) : m \in ReadEmails(t, CreateEmailChain)}
           : tg \in IF draft = <<>> THEN YesNo
                    ELSE IF draftHasTag(draft[1], REQUIRED_DRAFT_TAG)
                    THEN {"yes"} ELSE {"no"}}

\* create.js from JSON.parse to the try: invalid JSON is answered 400;
\* payload.draft_order on null and summarizeDraft on line_items without map()
\* or with a null entry throw outside every try.
createParsed(c) ==
    UNION {LET b == [c EXCEPT !.body = k]
           IN  CASE k = "unparseable" -> {Answer(b, 400)}
                 [] k = "null" -> {Thrown(b)}
                 [] OTHER ->
                      UNION {LET d == [b EXCEPT !.items = it]
                             IN  IF it = "malformed" THEN {Thrown(d)}
                                 ELSE createMapped(d)
                             : it \in LineItems}
           : k \in Bodies}

\* The handler of create.js from its entry to its answer or to its first
\* cin7Request.  (Reading the body suspends it, touching no shared state.)
createHandler(e) ==
    UNION {LET c == [NewCall EXCEPT !.method = m]
           IN  IF m = "GET" THEN {Answer(c, 200)}
               ELSE IF m # "POST" THEN {Answer(c, 405)}
               ELSE UNION {IF ~allowedShop(e, s) THEN {Answer(s, 401)}
                           ELSE UNION {LET v == verifyShopifyHmac(e, h)
                                       IN  IF v = "throws" THEN {Thrown(h)}
                                           ELSE IF v = "false"
                                           THEN {Answer(h, 401)}
                                           ELSE createParsed(h)
                                       : h \in SigReads(e, s)}
                           : s \in ShopReads(e, c)}
           : m \in Methods}

\* The catch of server.js around the whole handler: 200 "ok".
serverCaught(c) == Answer(c, 200)

\* server.js after the signature: JSON.parse, summarizeDraft and the mapper
\* (which reads draft.shipping_line.title unguarded) all throw into the catch;
\* without an email 200; with one, axios.get for the contact is called.
serverParsed(c) ==
    UNION {LET b == [c EXCEPT !.body = k]
           IN  IF k # "object" THEN {serverCaught(b)}
               ELSE UNION {LET d == [b EXCEPT !.items = it]
                           IN  IF it = "malformed" THEN {serverCaught(d)}
                               ELSE UNION {{LET q == [m EXCEPT !.shippingLine = sl]
                                            IN  IF sl = "absent" THEN serverCaught(q)
                                                ELSE IF HasMemberEmail(q, ServerEmailChain)
                                                THEN [q EXCEPT !.pc = "lookup",
                                                               !.downstream = 1]
                                                ELSE Answer(q, 200)
                                            : sl \in Presence}
                                           : m \in ReadEmails(d, ServerEmailChain)}
                           : it \in LineItems}
           : k \in Bodies}

\* The route of server.js (POST only).  express.raw leaves req.body a Buffer
\* for a JSON content type with a body (typed), and no Buffer otherwise.
serverHandler(e) ==
    UNION {LET c == [NewCall EXCEPT !.method = "POST", !.typed = ty]
           IN  UNION {IF ~allowedShop(e, s) THEN {Answer(s, 401)}
                      ELSE UNION {LET v == verifyShopifyHmac(e, h)
                                  IN  IF v = "throws" THEN {serverCaught(h)}
                                      ELSE IF v = "false" THEN {Answer(h, 401)}
                                      ELSE serverParsed(h)
                                  : h \in SigReads(e, s)}
                      : s \in ShopReads(e, c)}
           : ty \in YesNo}

\* flow-draft-to-core.ts after the secret: req.json(), the line_items test,
\* the mapper and postOmniSalesOrders, which answers 500 itself without
\* credentials and calls fetch otherwise.
flowParsed(e, c) ==
    UNION {LET b == [c EXCEPT !.body = k]
           IN  IF k # "object" THEN {Answer(b, 400)}
               ELSE {LET d == [b EXCEPT !.items = it]
                     IN  IF it # "array" THEN Answer(d, 400)
                         ELSE IF ~e.credsSet THEN Answer(d, 500)
                         ELSE [d EXCEPT !.pc = "post", !.downstream = 1]
                     : it \in LineItems}
           : k \in Bodies}

\* The handler of flow-draft-to-core.ts; X-Flow-Secret is read only when
\* FLOW_SHARED_SECRET is set.
flowHandler(e) ==
    UNION {LET c == [NewCall EXCEPT !.method = m]
           IN  IF m # "POST" THEN {Answer(c, 405)}
               ELSE IF ~e.secretSet THEN flowParsed(e, c)
               ELSE UNION {IF h.sig # "good" THEN {Answer(h, 401)}
                           ELSE flowParsed(e, h)
                           : h \in SigReads(e, c)}
           : m \in Methods}

\* What the handler of the deployment does with a request, up to its answer
\* or its first Cin7 call.
HandlerEntry(e) ==
    CASE e.handler = "create" -> createHandler(e)
      [] e.handler = "server" -> serverHandler(e)
      [] OTHER -> flowHandler(e)

\* await cin7Request(config, context) in call k of create.js: attempt becomes
\* 1 and the first scheduleCin7Request runs.
CallCin7Request(cs, k) ==
    LET r == Len(reqs) + 1
        g == scheduleCin7Request(Gov, r, now)
    IN  /\ reqs' = NoteDispatch(Append(reqs, NewRequest), Gov, g, now)
        /\ SetGov(g)
        /\ calls' = [cs EXCEPT ![k].req = r, ![k].downstream = @ + 1]

\* r.data of a resolved contact lookup: no array or an empty one, a first
\* entry without an id, a first entry with one.
Contacts == {"none", "withoutId", "withId"}

\* const r = await cin7Request(...) inside the inner try: the lines after it
\* run when the request has resolved, the catch when it has rejected.
AwaitedAtOnce(rec) == TRUE

Awaited(rec) == rec.state \in {"resolved", "rejected"}

\* contact = Array.isArray(r.data) ? r.data[0] : null;
\* if (contact?.id) quote.memberId = contact.id;  The catch only logs.
lookupEnded(c, rec) ==
    IF rec.state = "rejected" THEN {[c EXCEPT !.pc = "quote"]}
    ELSE {[c EXCEPT !.pc = "quote", !.contact = ct,
                    !.memberId = IF ct = "withId" THEN "present" ELSE "absent"]
          : ct \in Contacts}

GovernorUnchanged ==
    UNCHANGED <<cin7RecentRequests, cin7Queue, cin7QueueProcessing, workers,
                reqs, enqueued, lastTicket, dispatchTimes>>

\* A request arrives and the handler runs to its answer or first Cin7 call.
Receive(limit) ==
    /\ Started(env)
    /\ Len(calls) < limit
    /\ \E c \in HandlerEntry(env) :
            IF env.handler = "create" /\ c.pc = "lookup"
            THEN CallCin7Request(Append(calls, [c EXCEPT !.lookup = Len(reqs) + 1]),
                                 Len(calls) + 1)
            ELSE calls' = Append(calls, c) /\ GovernorUnchanged
    /\ UNCHANGED <<now, env, processedEvents, mapperVars>>

\* create.js: the awaited cin7Request has settled.  After the contact lookup,
\* found or failed (the inner catch), the quote is posted; after the quote,
\* 200, or 502 from the outer catch.
CreateContinue(k) ==
    /\ env.handler = "create"
    /\ calls[k].pc \in {"lookup", "quote"}
    /\ Awaited(reqs[calls[k].req])
    /\ IF calls[k].pc = "lookup"
       THEN \E c \in lookupEnded(calls[k], reqs[calls[k].req]) :
                CallCin7Request([calls EXCEPT ![k] = c], k)
       ELSE /\ calls' = [calls EXCEPT ![k] =
                            Answer(@, IF reqs[calls[k].req].state = "resolved"
                                      THEN 200 ELSE 502)]
            /\ GovernorUnchanged
    /\ UNCHANGED <<now, env, processedEvents, mapperVars>>

\* server.js: the axios call in flight settles.  After the contact lookup,
\* found or failed, sendQuoteToCin7 posts the quote; after the post 200,
\* from the last line or from the catch.
ServerContinue(k) ==
    /\ env.handler = "server"
    /\ calls[k].pc \in {"lookup", "post"}
    /\ calls' = [calls EXCEPT ![k] =
                    IF calls[k].pc = "lookup"
                    THEN [@ EXCEPT !.pc = "post", !.downstream = @ + 1]
                    ELSE Answer(@, 200)]
    /\ GovernorUnchanged
    /\ UNCHANGED <<now, env, processedEvents, mapperVars>>

\* What fetch gives postOmniSalesOrders: no response (0) or any status.
FlowStatuses == {0, 200, 201, 204, 301, 400, 404, 429, 500, 501, 502, 503, 504}

FlowOutcomes == {[status |-> st, retryAfter |-> <<>>] : st \in FlowStatuses}

\* The statuses the flow handler relays as temporary errors.
FlowRelayedEvery5xx == {429} \cup (500 .. 599)

FlowRelayed == {429, 500, 502, 503, 504}

\* flow-draft-to-core.ts: fetch settles with outcome o.  It throws without a
\* response (the catch answers 500) and resolves on every status.
FlowContinue(k, o) ==
    /\ env.handler = "flow"
    /\ calls[k].pc = "post"
    /\ calls' = [calls EXCEPT ![k] =
                    Answer([@ EXCEPT !.omniStatus = o.status],
                           IF o.status = 0 THEN 500
                           ELSE IF IsSuccess(o) THEN 200
                           ELSE IF o.status \in FlowRelayed THEN o.status
                           ELSE 400)]
    /\ GovernorUnchanged
    /\ UNCHANGED <<now, env, processedEvents, mapperVars>>

\* ------------------------------------------------- the ack-first handlers

\* EVENT_TTL_MS = 24 * 60 * 60 * 1000
EVENT_TTL_MS == 86400000

\* retries of fetchWithRetries
Retries == 3

\* A process serves the idempotent server of part_004 (it throws on import
\* without its secret or its credentials) or the Omni bridge, whose handler
\* looks SHOPIFY_WEBHOOK_SECRET up on every request and whose
\* pushQuoteToOmni looks the credentials up on every push.
AckDeployments ==
    {[handler |-> "idempotent", secretSet |-> TRUE, shopListSet |-> a,
      credsSet |-> TRUE] : a \in BOOLEAN}
    \cup {[handler |-> "bridge", secretSet |-> s, shopListSet |-> FALSE,
           credsSet |-> c] : s \in BOOLEAN, c \in BOOLEAN}

\* X-Shopify-Event-Id: missing, or one of two ids.
EventIds == {"none", "e1", "e2"}

\* An isProcessed that never lets a mark expire.
isProcessedForever(store, id, t) ==
    [hit |-> id # "none" /\ \E p \in store : p[1] = id, store |-> store]

\* isProcessed(eventId) at time t: the answer, and the store it leaves (a
\* mark older than the TTL is deleted).  A mark of 0 counts as none (!ts).
isProcessed(store, id, t) ==
    LET marks == {p \in store : p[1] = id}
        ts == (CHOOSE p \in marks : TRUE)[2]
    IN  IF id = "none" \/ marks = {} THEN [hit |-> FALSE, store |-> store]
        ELSE IF ts = 0 THEN [hit |-> FALSE, store |-> store]
        ELSE IF t - ts > EVENT_TTL_MS
        THEN [hit |-> FALSE, store |-> store \ marks]
        ELSE [hit |-> TRUE, store |-> store]

\* markProcessed(eventId): processedEvents.set(eventId, Date.now())
markProcessed(store, id, t) == {p \in store : p[1] # id} \cup {<<id, t>>}

\* The catch after the acknowledgement answers as well.
logFailureAnswered(c) == Answer(c, 502)

\* The catch after the acknowledgement: console.error, nothing else.
logFailure(c) == [c EXCEPT !.pc = "done"]

\* The catch of the idempotent server around its whole handler, reached
\* before the acknowledgement: res.status(200).send("ok").
ackCaught(c) == Answer(c, 200)

\* The idempotent server from the parse on: the body is parsed, the request
\* acknowledged, the draft mapped ((draft.line_items || []).map throws into
\* the inner catch) and axios.post called.
idempotentParsed(c) ==
    UNION {LET b == [c EXCEPT !.body = k]
           IN  IF k # "object" THEN {ackCaught(b)}
               ELSE {LET d == Send([b EXCEPT !.items = it], 200)
                     IN  IF it = "malformed" THEN logFailure(d)
                         ELSE [d EXCEPT !.pc = "post", !.downstream = 1]
                     : it \in LineItems}
           : k \in Bodies}

\* The route of the idempotent server at time t with the store given: the
\* handler invocations it can become, each with the store it leaves.
idempotentHandler(e, store, t) ==
    UNION {LET c == [NewCall EXCEPT !.method = "POST", !.typed = ty]
           IN  UNION {IF ~allowedShop(e, s)
                      THEN {[call |-> Answer(s, 401), store |-> store]}
                      ELSE UNION {LET v == verifyShopifyHmac(e, h)
                                  IN  IF v = "throws"
                                      THEN {[call |-> ackCaught(h), store |-> store]}
                                      ELSE IF v = "false"
                                      THEN {[call |-> Answer(h, 401), store |-> store]}
                                      ELSE UNION {LET i == [h EXCEPT !.eventId = id]
                                                      p == isProcessed(store, id, t)
                                                  IN  IF p.hit
                                                      THEN {[call |-> Answer(i, 200),
                                                             store |-> p.store]}
                                                      ELSE {[call |-> q, store |-> p.store]
                                                            : q \in idempotentParsed(i)}
                                                  : id \in EventIds}
                                  : h \in SigReads(e, s)}
                      : s \in ShopReads(e, c)}
           : ty \in YesNo}

\* verifyShopifyWebhook(req, secret): update throws on a body that is no
\* Buffer; the digest is compared with the header, "" when it is missing.
verifyShopifyWebhook(c) ==
    IF c.typed = "no" THEN "throws"
    ELSE IF c.sig = "good" THEN "true" ELSE "false"

\* An exception leaves the handler of the bridge: Express 4 leaves the
\* request unanswered, Express 5 answers 500 from its error handler.
bridgeThrown(c) ==
    {[c EXCEPT !.pc = "done", !.escaped = "yes"],
     [c EXCEPT !.pc = "done", !.escaped = "yes", !.status = 500]}

\* The bridge after the acknowledgement: JSON.parse, mapDraftToOmniQuote
\* (which maps null, and throws on line_items that are no array) and
\* pushQuoteToOmni, which throws without credentials and calls
\* fetchWithRetries otherwise.  All of it inside the try.
bridgeAcked(e, c) ==
    LET push(d) == IF ~e.credsSet THEN logFailure(d)
                   ELSE [d EXCEPT !.pc = "fetch", !.downstream = 1]
    IN  UNION {LET b == [c EXCEPT !.body = k]
               IN  CASE k = "unparseable" -> {logFailure(b)}
                     [] k = "null" -> {push(b)}
                     [] OTHER -> {LET d == [b EXCEPT !.items = it]
                                  IN  IF it = "malformed" THEN logFailure(d)
                                      ELSE push(d)
                                  : it \in LineItems}
               : k \in Bodies}

\* The route of the bridge.
bridgeHandler(e) ==
    UNION {LET c == [NewCall EXCEPT !.method = "POST", !.typed = ty]
           IN  IF ~e.secretSet THEN {Answer(c, 500)}
               ELSE IF verifyShopifyWebhook(c) = "throws" THEN bridgeThrown(c)
               ELSE UNION {IF verifyShopifyWebhook(h) = "false"
                           THEN {Answer(h, 401)}
                           ELSE bridgeAcked(e, Send(h, 200))
                           : h \in SigReads(e, c)}
           : ty \in YesNo}

\* A webhook arrives at an ack-first handler, which runs until it returns or
\* awaits its Cin7 call.
AckReceive(limit) ==
    /\ Len(calls) < limit
    /\ IF env.handler = "idempotent"
       THEN \E r \in idempotentHandler(env, processedEvents, now) :
                /\ calls' = Append(calls, r.call)
                /\ processedEvents' = r.store
       ELSE \E c \in bridgeHandler(env) :
                /\ calls' = Append(calls, c)
                /\ UNCHANGED processedEvents
    /\ GovernorUnchanged
    /\ UNCHANGED <<now, env, mapperVars>>

\* The idempotent server: axios.post settles with outcome o.  It resolves on
\* a 2xx, and the event is marked; anything else it throws into the catch.
IdempotentContinue(k, o) ==
    /\ env.handler = "idempotent"
    /\ calls[k].pc = "post"
    /\ IF IsSuccess(o)
       THEN /\ processedEvents' = markProcessed(processedEvents, calls[k].eventId, now)
            /\ calls' = [calls EXCEPT ![k].pc = "done",
                                      ![k].omniStatus = o.status]
       ELSE /\ calls' = [calls EXCEPT ![k] =
                            logFailure([@ EXCEPT !.omniStatus = o.status])]
            /\ UNCHANGED processedEvents
    /\ GovernorUnchanged
    /\ UNCHANGED <<now, env, mapperVars>>

\* The bridge: the fetch of fetchWithRetries settles with outcome o.  A 2xx
\* is returned; anything else (a status, thrown inside the try, or no
\* response) is followed by a sleep while attempt < retries and thrown to
\* the handler's catch after the last attempt.
BridgeContinue(k, o) ==
    /\ env.handler = "bridge"
    /\ calls[k].pc = "fetch"
    /\ calls' = [calls EXCEPT ![k] =
                    IF IsSuccess(o)
                    THEN [@ EXCEPT !.pc = "done", !.omniStatus = o.status]
                    ELSE IF @.attempt < Retries
                    THEN [@ EXCEPT !.pc = "sleep", !.omniStatus = o.status]
                    ELSE logFailure([@ EXCEPT !.omniStatus = o.status])]
    /\ GovernorUnchanged
    /\ UNCHANGED <<now, env, processedEvents, mapperVars>>

\* The sleep of fetchWithRetries ends: attempt++ and the next fetch.
BridgeRetry(k) ==
    /\ env.handler = "bridge"
    /\ calls[k].pc = "sleep"
    /\ calls' = [calls EXCEPT ![k].pc = "fetch", ![k].attempt = @ + 1,
                              ![k].downstream = @ + 1]
    /\ GovernorUnchanged
    /\ UNCHANGED <<now, env, processedEvents, mapperVars>>

\* sweepProcessed(), run by setInterval every hour: the marks older than the
\* TTL are deleted.
sweepProcessed ==
    /\ env.handler = "idempotent"
    /\ processedEvents' = {p \in processedEvents : ~(now - p[2] > EVENT_TTL_MS)}
    /\ processedEvents' # processedEvents
    /\ GovernorUnchanged
    /\ UNCHANGED <<now, env, calls, mapperVars>>

\* Time passes: a millisecond, or a whole TTL.  The clock stays within
\* MaxOffset ms of a multiple of the TTL, for MaxDays of them.
Elapse(d) ==
    /\ now + d <= MaxDays * EVENT_TTL_MS + MaxOffset
    /\ (now + d) % EVENT_TTL_MS <= MaxOffset
    /\ now' = now + d
    /\ GovernorUnchanged
    /\ UNCHANGED <<env, calls, processedEvents, mapperVars>>

\* ------------------------------------------------------------- the mapper

\* Numbers.  An amount of money is a whole number of cents; a rate, decimal
\* (0.1) or percent (10), is a whole number of 1/Scale (10 and 1000).
\* An optional number is <<>> when it is null, undefined or not finite, and
\* <<n>> otherwise.  Text that is missing is "", as falsy as the empty string.
Scale == 100

\* null and undefined where the mapper stores them in a text field
Null == "<null>"
Undefined == "<undefined>"

\* cin7TaxRate(value): numeric * 100
cin7TaxRate(value) == value * 100

\* Math.round(n / d) for d > 0: halves go up.
RoundHalfUp(n, d) == (2 * n + d) \div (2 * d)

\* convertInclusiveAmount cutting the fraction of a cent off.
convertTruncating(amount, taxRatePercent) ==
    IF taxRatePercent = <<>> THEN amount
    ELSE IF taxRatePercent[1] <= 0 - 100 * Scale THEN amount
    ELSE (amount * 100 * Scale) \div (100 * Scale + taxRatePercent[1])

\* convertInclusiveAmount(amount, taxRatePercent): the amount itself when the
\* rate is not finite or rateDecimal <= -1, and else
\* Math.round((amount / (1 + ratePercent / 100)) * 100) / 100, in cents.
convertInclusiveAmount(amount, taxRatePercent) ==
    IF taxRatePercent = <<>> THEN amount
    ELSE IF taxRatePercent[1] <= 0 - 100 * Scale THEN amount
    ELSE RoundHalfUp(amount * 100 * Scale, 100 * Scale + taxRatePercent[1])

\* fallbackInclusiveTaxRate with CIN7_DEFAULT_INCLUSIVE_TAX_RATE unset: "10"
\* is normalised to the decimal 0.1.
fallbackInclusiveTaxRate == cin7TaxRate(Scale \div 10)

\* extractRateFromLines(taxLines): the rate of the first line that has one.
extractRateFromLines(taxLines) ==
    LET rated == {i \in DOMAIN taxLines : taxLines[i] # <<>>}
    IN  IF rated = {} THEN <<>>
        ELSE taxLines[CHOOSE i \in rated : \A j \in rated : i <= j]

\* taxRateFromLines(taxLines)
taxRateFromLines(taxLines) ==
    LET rate == extractRateFromLines(taxLines)
    IN  IF rate # <<>> THEN <<cin7TaxRate(rate[1])>> ELSE <<>>

\* A shipping line that never has tax lines.
NoShippingTaxLines(d) == <<>>

\* draft.shipping_line?.tax_lines
ShippingTaxLines(d) ==
    IF d.shipping_line = <<>> THEN <<>> ELSE d.shipping_line[1].tax_lines

\* resolveDefaultInclusiveTaxRate(draft)
resolveDefaultInclusiveTaxRate(d) ==
    LET rated == {i \in DOMAIN d.line_items :
                    taxRateFromLines(d.line_items[i].tax_lines) # <<>>}
    IN  IF ~d.taxes_included THEN [rate |-> <<>>, source |-> "exclusive"]
        ELSE IF taxRateFromLines(d.tax_lines) # <<>>
        THEN [rate |-> taxRateFromLines(d.tax_lines), source |-> "order"]
        ELSE IF rated # {}
        THEN [rate |-> taxRateFromLines(d.line_items[
                            CHOOSE i \in rated : \A j \in rated : i <= j].tax_lines),
              source |-> "line-item"]
        ELSE IF taxRateFromLines(ShippingTaxLines(d)) # <<>>
        THEN [rate |-> taxRateFromLines(ShippingTaxLines(d)), source |-> "freight"]
        ELSE [rate |-> <<fallbackInclusiveTaxRate>>, source |-> "fallback"]

\* CIN7_TAX_STATUS
CIN7_TAX_STATUS == "Excl"

\* a ?? b taking b whatever a is.
CoalesceSecond(a, b) == b

\* a ?? b
Coalesce(a, b) == IF a # <<>> THEN a ELSE b

\* text || fallback
OrText(text, fallback) == IF text # "" THEN text ELSE fallback

\* x != null ? Number(x) : 0
NumberOrZero(x) == IF x # <<>> THEN x[1] ELSE 0

\* An amount passed through whatever the draft says.
convertNever(should, truthy, raw, rate) == raw

\* shouldConvertToExclusive && raw && rate != null
\*     ? convertInclusiveAmount(raw, rate) : raw
\* and, with truthy = TRUE, the same without the test of raw.
convertWhen(should, truthy, raw, rate) ==
    IF should /\ truthy /\ rate # <<>>
    THEN convertInclusiveAmount(raw, rate) ELSE raw

\* The callback of (draft.line_items || []).map, for the item at idx (from 1).
mapLineItem(d, idx) ==
    LET li == d.line_items[idx]
        should == d.taxes_included /\ CIN7_TAX_STATUS = "Excl"
        sourceItemTaxRate == IF d.taxes_included
                             THEN Coalesce(taxRateFromLines(li.tax_lines),
                                           resolveDefaultInclusiveTaxRate(d).rate)
                             ELSE <<>>
        priceRaw == NumberOrZero(li.price)
        discountRaw == NumberOrZero(li.applied_discount)
    IN  [code |-> OrText(li.sku, ""), name |-> OrText(li.title, ""),
         option1 |-> OrText(li.variant_title, ""), qty |-> li.quantity,
         unitPrice |-> convertWhen(should, TRUE, priceRaw, sourceItemTaxRate),
         discount |-> convertWhen(should, discountRaw # 0, discountRaw,
                                  sourceItemTaxRate),
         sort |-> idx]

\* The keys of the quote that hold text, null or undefined.
TextKeys ==
    {"reference", "firstName", "memberEmail", "deliveryCity",
     "internalComments", "currencyCode", "taxStatus", "discountDescription",
     "freightDescription"}

\* The final loop deleting no key.
pruneNothing(q) == q

\* Object.keys(quote).forEach: a key whose value is undefined, null or "" is
\* deleted.
prune(q) ==
    [k \in {j \in DOMAIN q : ~(j \in TextKeys /\ q[j] \in {Undefined, Null, ""})}
        |-> q[k]]

\* mapDraftOrderToCin7Quote(draft), for a draft with a plain-text note, no
\* billing address and CIN7_BRANCH_ID unset.  The name and address fields
\* not listed are built like firstName and deliveryCity.
mapDraftOrderToCin7Quote(d) ==
    LET cust == IF d.customer = <<>> THEN [email |-> "", first_name |-> ""]
                ELSE d.customer[1]
        ship == IF d.shipping_address = <<>> THEN [city |-> "", first_name |-> ""]
                ELSE d.shipping_address[1]
        primaryEmail == OrText(d.email, OrText(cust.email, Null))
        should == d.taxes_included /\ CIN7_TAX_STATUS = "Excl"
        defaultTaxRate == resolveDefaultInclusiveTaxRate(d).rate
        shippingTaxRate == IF d.taxes_included
                           THEN Coalesce(taxRateFromLines(ShippingTaxLines(d)),
                                         defaultTaxRate)
                           ELSE <<>>
        orderDiscountRaw == IF d.applied_discount = <<>> THEN 0
                            ELSE NumberOrZero(d.applied_discount[1].amount)
        discountTotal == convertWhen(should, orderDiscountRaw # 0,
                                     orderDiscountRaw, defaultTaxRate)
        freightSourceAmount == IF d.shipping_line = <<>> THEN <<>>
                               ELSE d.shipping_line[1].price
        freight == IF freightSourceAmount = <<>> THEN <<>>
                   ELSE [freightTotal |-> convertWhen(should, TRUE,
                                                      freightSourceAmount[1],
                                                      shippingTaxRate)]
    IN  prune([reference |-> OrText(d.name, d.id),
               firstName |-> OrText(cust.first_name, OrText(ship.first_name, "")),
               memberEmail |-> IF primaryEmail = Null THEN Undefined
                               ELSE primaryEmail,
               deliveryCity |-> OrText(ship.city, ""),
               internalComments |-> OrText(d.note, Undefined),
               currencyCode |-> OrText(d.currency, "AUD"),
               taxStatus |-> CIN7_TAX_STATUS,
               discountTotal |-> discountTotal,
               discountDescription |->
                    IF d.applied_discount = <<>> THEN Null
                    ELSE OrText(d.applied_discount[1].title, Null),
               freightDescription |->
                    IF d.shipping_line = <<>> THEN Null
                    ELSE OrText(d.shipping_line[1].title, Null),
               lineItems |-> [i \in DOMAIN d.line_items |-> mapLineItem(d, i)]]
              @@ freight)

\* ---------------------------------------------- the inputs of the mapper

\* null, undefined or not a number (<<>>), or one of S.
Option(S) == {<<>>} \cup {<<x>> : x \in S}

\* The arrays of at most n entries from S.
UpTo(S, n) == UNION {[1 .. k -> S] : k \in 0 .. n}

\* Line items as the tax computation sees them: no price, or a price of
\* 110.00 with a discount of 11.00 or none; no tax line or one at 10% or 25%.
TaxItems ==
    {li \in [price : Option({11000}), applied_discount : Option({1100}),
             tax_lines : UpTo({<<(10 * Scale) \div 100>>,
                               <<(25 * Scale) \div 100>>}, 1),
             sku : {"SKU"}, title : {"Title"}, variant_title : {"Large"},
             quantity : {1}] :
        li.price = <<>> => li.applied_discount = <<>>}

\* Drafts as the tax computation sees them: order-level tax lines without a
\* rate or at 5%, shipping at 22.00 with or without a tax line at 20%, an
\* order discount of 33.00 or none.
TaxDrafts ==
    [taxes_included : BOOLEAN,
     tax_lines : UpTo(Option({(5 * Scale) \div 100}), MaxTaxLines),
     line_items : UpTo(TaxItems, MaxLineItems),
     shipping_line : Option([price : Option({2200}),
                             tax_lines : UpTo({<<(20 * Scale) \div 100>>}, 1),
                             title : {"Freight"}]),
     applied_discount : Option([amount : Option({3300}), title : {"Promo"}]),
     name : {"#D1"}, id : {"7"}, email : {"a@b.c"}, customer : {<<>>},
     shipping_address : {<<>>}, note : {""}, currency : {"AUD"}]

\* Drafts as the text fields see them: any of them missing.
TextDrafts ==
    [taxes_included : {FALSE},
     tax_lines : {<<>>},
     line_items : UpTo([price : {<<11000>>}, applied_discount : {<<>>},
                        tax_lines : {<<>>}, sku : {"", "SKU"},
                        title : {"", "Title"}, variant_title : {"", "Large"},
                        quantity : {1}], 1),
     shipping_line : Option([price : {<<2200>>}, tax_lines : {<<>>},
                             title : {"", "Freight"}]),
     applied_discount : Option([amount : {<<3300>>}, title : {"", "Promo"}]),
     name : {"", "#D1"}, id : {"", "7"}, email : {"", "a@b.c"},
     customer : Option([email : {"c@d.e"}, first_name : {"", "Ann"}]),
     shipping_address : Option([city : {"", "Perth"}, first_name : {""}]),
     note : {"", "call first"}, currency : {"", "NZD"}]

\* Amounts in whole cents, and rates in percent: none, -100, -50, 0, 5, 10,
\* 12.5, 20, 100, 200, 250 and 300.
Conversions ==
    [amount : (0 .. MaxAmount) \cup {11000},
     taxRatePercent : Option({(h * Scale) \div 2 :
                                h \in {0 - 200, 0 - 100, 0, 10, 20, 25, 40,
                                       200, 400, 500, 600}}),
     exclusive : {<<>>}]

\* mapDraftOrderToCin7Quote(draft) is called.
MapDraft ==
    /\ draft # <<>>
    /\ quote = <<>>
    /\ quote' = <<mapDraftOrderToCin7Quote(draft[1])>>
    /\ GovernorUnchanged
    /\ UNCHANGED <<now, env, calls, processedEvents, draft, resolved, conversion,
                   verification>>

\* resolveDefaultInclusiveTaxRate(draft) is called.
ResolveRate ==
    /\ draft # <<>>
    /\ resolved = <<>>
    /\ resolved' = <<resolveDefaultInclusiveTaxRate(draft[1])>>
    /\ GovernorUnchanged
    /\ UNCHANGED <<now, env, calls, processedEvents, draft, quote, conversion,
                   verification>>

\* convertInclusiveAmount(amount, taxRatePercent) is called.
Convert ==
    /\ conversion # <<>>
    /\ conversion[1].exclusive = <<>>
    /\ conversion' = <<[conversion[1] EXCEPT !.exclusive =
                            <<convertInclusiveAmount(conversion[1].amount,
                                                     conversion[1].taxRatePercent)>>]>>
    /\ GovernorUnchanged
    /\ UNCHANGED <<now, env, calls, processedEvents, draft, quote, resolved,
                   verification>>

\* Several requests compete for the queue; a bounded number of attempts fail.
Next ==
    \/ StartRequests(1, MaxRequests)
    \/ \E i \in DOMAIN workers : WorkerWake(i)
    \/ \E i \in DOMAIN workers : \E o \in Outcomes : \E j \in Jitters :
            Settle(i, o, j, MaxFailures)
    \/ \E r \in DOMAIN reqs : RetryWake(r)
    \/ \E t \in TickTargets : Tick(t)

Spec == Init /\ [][Next]_vars

\* The scheduling the event loop guarantees: a timer that is due fires, a call
\* in flight settles (every network call terminates) and the clock advances.
Fairness ==
    /\ WF_vars(\E i \in DOMAIN workers : WorkerWake(i))
    /\ WF_vars(\E i \in DOMAIN workers : \E o \in Outcomes : \E j \in Jitters :
                    Settle(i, o, j, MaxFailures))
    /\ WF_vars(\E r \in DOMAIN reqs : RetryWake(r))
    /\ WF_vars(\E t \in TickTargets : Tick(t))

FairSpec == Spec /\ Fairness

\* One request against every outcome of every attempt.
NextRetry ==
    \/ StartRequests(1, 1)
    \/ \E i \in DOMAIN workers : WorkerWake(i)
    \/ \E i \in DOMAIN workers : \E o \in Outcomes : \E j \in Jitters :
            Settle(i, o, j, MaxAttempts)
    \/ \E r \in DOMAIN reqs : RetryWake(r)
    \/ \E t \in TickTargets : Tick(t)

SpecRetry == Init /\ [][NextRetry]_vars

\* Bursts of BurstSize requests enqueued at the same instant; every call
\* succeeds.
NextBurst ==
    \/ StartRequests(BurstSize, MaxBursts * BurstSize)
    \/ \E i \in DOMAIN workers : WorkerWake(i)
    \/ \E i \in DOMAIN workers : \E o \in Outcomes : Settle(i, o, 0, 0)
    \/ \E t \in TickTargets : Tick(t)

SpecBurst == Init /\ [][NextBurst]_vars

\* Any deployment serving requests, several at a time.  The clock is looked at
\* by the governor alone: here time passes only to the next timer.
InitHandlers ==
    /\ InitGovernor
    /\ env \in Deployments

NextHandlers ==
    \/ Receive(MaxCalls)
    \/ \E k \in DOMAIN calls : CreateContinue(k)
    \/ \E k \in DOMAIN calls : ServerContinue(k)
    \/ \E k \in DOMAIN calls : \E o \in FlowOutcomes : FlowContinue(k, o)
    \/ \E i \in DOMAIN workers : WorkerWake(i)
    \/ \E i \in DOMAIN workers : \E o \in Outcomes :
            Settle(i, o, 0, MaxFailures)
    \/ \E r \in DOMAIN reqs : RetryWake(r)
    \/ \E t \in Deadlines : Tick(t)

SpecHandlers == InitHandlers /\ [][NextHandlers]_vars

\* A process started in any environment and the first request it serves,
\* if it serves any.
InitStartup ==
    /\ InitGovernor
    /\ env \in StartupDeployments

NextStartup ==
    \/ Receive(1)
    \/ \E k \in DOMAIN calls : CreateContinue(k)
    \/ \E k \in DOMAIN calls : ServerContinue(k)
    \/ \E k \in DOMAIN calls : \E o \in FlowOutcomes : FlowContinue(k, o)
    \/ \E i \in DOMAIN workers : \E o \in Outcomes :
            Settle(i, o, 0, MaxFailures)
    \/ \E r \in DOMAIN reqs : RetryWake(r)
    \/ \E t \in Deadlines : Tick(t)

SpecStartup == InitStartup /\ [][NextStartup]_vars

\* The ack-first handlers serving webhooks, several at a time, while days pass.
InitAck ==
    /\ now = 1
    /\ cin7RecentRequests = <<>>
    /\ cin7Queue = <<>>
    /\ cin7QueueProcessing = FALSE
    /\ workers = <<>>
    /\ reqs = <<>>
    /\ enqueued = 0
    /\ lastTicket = 0
    /\ dispatchTimes = <<>>
    /\ calls = <<>>
    /\ processedEvents = {}
    /\ draft = <<>>
    /\ quote = <<>>
    /\ resolved = <<>>
    /\ conversion = <<>>
    /\ verification = <<>>
    /\ env \in AckDeployments

NextAck ==
    \/ AckReceive(MaxCalls)
    \/ \E k \in DOMAIN calls : \E o \in FlowOutcomes : IdempotentContinue(k, o)
    \/ \E k \in DOMAIN calls : \E o \in FlowOutcomes : BridgeContinue(k, o)
    \/ \E k \in DOMAIN calls : BridgeRetry(k)
    \/ sweepProcessed
    \/ \E d \in {1, EVENT_TTL_MS} : Elapse(d)

SpecAck == InitAck /\ [][NextAck]_vars

\* The mapper and its arithmetic applied to a draft, or to an amount and a
\* rate, drawn from the sets above.
InitMapper ==
    /\ now = 0
    /\ cin7RecentRequests = <<>>
    /\ cin7Queue = <<>>
    /\ cin7QueueProcessing = FALSE
    /\ workers = <<>>
    /\ reqs = <<>>
    /\ enqueued = 0
    /\ lastTicket = 0
    /\ dispatchTimes = <<>>
    /\ calls = <<>>
    /\ processedEvents = {}
    /\ env = [handler |-> "create", secretSet |-> TRUE, shopListSet |-> TRUE,
              credsSet |-> TRUE]
    /\ quote = <<>>
    /\ resolved = <<>>
    /\ verification = <<>>
    /\ \/ draft \in {<<d>> : d \in TaxDrafts \cup TextDrafts} /\ conversion = <<>>
       \/ draft = <<>> /\ conversion \in {<<c>> : c \in Conversions}

NextMapper ==
    \/ MapDraft
    \/ ResolveRate
    \/ Convert

SpecMapper == InitMapper /\ [][NextMapper]_vars

\* ------------------------------------------------------------ properties

\* The dispatches among the first k whose time lies in the window of length
\* span that ends at the k-th dispatch, (dispatchTimes[k] - span, dispatchTimes[k]].
DispatchesInWindow(k, span) ==
    Cardinality({j \in 1 .. k : InWindow(dispatchTimes[j], dispatchTimes[k], span)})

\* C1: whatever was enqueued, bursts of 50 tasks at one instant included, no
\* window of one second holds more than 3 of the recorded dispatch times and
\* no window of 60 seconds more than 60.  A window is half open: one second
\* is 1000 consecutive milliseconds.
RateLimitsRespected ==
    \A k \in DOMAIN dispatchTimes :
        /\ DispatchesInWindow(k, SecondMs) <= PerSecond
        /\ DispatchesInWindow(k, MinuteMs) <= PerMinute

\* A burst was enqueued at one instant, both limits have delayed the worker
\* and the dispatch after the 60th has taken place.
RateLimitsWitness ==
    /\ enqueued >= BurstSize
    /\ Len(dispatchTimes) > PerMinute
    /\ dispatchTimes[PerSecond + 1] - dispatchTimes[1] = SecondMs
    /\ dispatchTimes[PerMinute + 1] - dispatchTimes[1] = MinuteMs

\* C2: however the callers interleave, at most one runCin7Queue loop is
\* active (suspended in its sleep or in its call of task.fn) and at most one
\* task is in flight.
SingleWorker ==
    /\ Len(workers) <= 1
    /\ Cardinality(InFlight) <= 1

\* One task is in flight while two callers that came later wait in the queue.
SingleWorkerWitness ==
    /\ Cardinality(InFlight) = 1
    /\ Len(cin7Queue) >= 2

\* C3: tasks are dispatched in the order of their pushes: the k-th dispatch
\* takes the task of the k-th push, and the queue holds the pushes that
\* follow, in order.
FifoOrder ==
    /\ lastTicket = Len(dispatchTimes)
    /\ \A i \in DOMAIN cin7Queue : cin7Queue[i].ticket = lastTicket + i

\* Two tasks have been dispatched while two more wait.
FifoOrderWitness ==
    /\ lastTicket >= 2
    /\ Len(cin7Queue) >= 2

\* C4: a cin7Request all of whose attempts fail with HTTP 500 is dispatched
\* exactly 4 times (maxAttempts: the first attempt and three more), never
\* waits for a fifth, and is then rejected with the error of the last attempt.
ExhaustedAfterMaxAttempts ==
    \A r \in DOMAIN reqs :
        reqs[r].seen = {500} =>
            /\ reqs[r].dispatches <= MaxAttempts
            /\ reqs[r].state = "backoff" => reqs[r].dispatches < MaxAttempts
            /\ reqs[r].state = "rejected" =>
                    /\ reqs[r].dispatches = MaxAttempts
                    /\ reqs[r].lastErr[1].status = 500

\* A request has been rejected after four attempts that all failed with 500.
ExhaustedWitness ==
    \E r \in DOMAIN reqs :
        /\ reqs[r].state = "rejected"
        /\ reqs[r].seen = {500}
        /\ reqs[r].dispatches = MaxAttempts

\* The client errors that are not 429.
IsPermanentStatus(status) == status >= 400 /\ status < 500 /\ status # 429

\* C5: a failed request is attempted again only when the failure status is
\* 429 or 5xx and fewer than 4 attempts have been made; after a 4xx status
\* other than 429 nothing more is dispatched for the request (one dispatch
\* when it was the first failure) and the caller gets that error.
RetryOnlyTemporary ==
    \A r \in DOMAIN reqs :
        /\ reqs[r].state = "backoff" \/ reqs[r].attempt > 1 =>
                /\ reqs[r].lastErr # <<>>
                /\ reqs[r].state \in {"backoff", "scheduled"} =>
                        /\ reqs[r].lastErr[1].status = 429
                              \/ reqs[r].lastErr[1].status \in 500 .. 599
                /\ reqs[r].state = "backoff" => reqs[r].attempt < MaxAttempts
        /\ reqs[r].dispatches <= reqs[r].attempt
        /\ \A st \in reqs[r].seen :
                IsPermanentStatus(st) =>
                    /\ reqs[r].state = "rejected"
                    /\ reqs[r].lastErr[1].status = st
                    /\ reqs[r].seen = {st} => reqs[r].dispatches = 1

\* A request was attempted again after a 429 and then rejected at once on 404.
RetryOnlyTemporaryWitness ==
    \E r \in DOMAIN reqs :
        /\ reqs[r].state = "rejected"
        /\ reqs[r].seen = {429, 404}
        /\ reqs[r].dispatches = 2
        /\ reqs[r].lastErr[1].status = 404

\* The delay cin7Request owes after attempt a failed with outcome o: the
\* Retry-After seconds in ms when the header is a number, else the computed
\* backoff for some jitter of 0 .. 249, at most 5000 ms.
IsOwedDelay(d, o, a) ==
    IF o.retryAfter[1] = "seconds"
    THEN d = o.retryAfter[2] * 1000
    ELSE /\ d <= BackoffCap
         /\ \E j \in 0 .. JitterSpan - 1 : d = Min(BackoffCap, BackoffBase * a + j)

\* C6: after a retryable failure the sleep of the request lasts the
\* Retry-After seconds times 1000 when the response carries that header as a
\* number (2000 ms for a 429 with Retry-After: 2), and otherwise
\* min(5000, 500 * attempt + jitter) with jitter in 0 .. 249; the next attempt
\* is not dispatched before the sleep is over.
BackoffDelay ==
    \A r \in DOMAIN reqs :
        /\ reqs[r].state = "backoff" =>
                IsOwedDelay(reqs[r].notBefore - reqs[r].failedAt,
                            reqs[r].lastErr[1], reqs[r].attempt)
        /\ reqs[r].state = "scheduled" /\ reqs[r].attempt > 1 =>
                /\ IsOwedDelay(reqs[r].notBefore - reqs[r].failedAt,
                               reqs[r].lastErr[1], reqs[r].attempt - 1)
                /\ reqs[r].dispatches = reqs[r].attempt =>
                        reqs[r].dispatchedAt >= reqs[r].notBefore

\* The second attempt of a request is in flight after a 429 with
\* Retry-After: 2, dispatched 2000 ms or more after the failure.
BackoffDelayWitness ==
    \E r \in DOMAIN reqs :
        /\ reqs[r].state = "scheduled"
        /\ reqs[r].dispatches = 2
        /\ reqs[r].lastErr = <<[status |-> 429, retryAfter |-> <<"seconds", 2>>]>>
        /\ reqs[r].dispatchedAt - reqs[r].failedAt >= 2000

\* The most tasks Spec pushes: one per request and one per failed attempt.
MaxTickets == MaxRequests + MaxFailures

\* The task of the k-th push has been dispatched and its call has settled.
TaskSettled(k) ==
    /\ lastTicket >= k
    /\ \A i \in InFlight : workers[i].task.ticket # k

\* C7: when timers fire, calls in flight settle and the clock advances, every
\* task pushed by scheduleCin7Request is eventually dispatched and settled,
\* whatever is pushed after it.
EveryTaskSettles ==
    \A k \in 1 .. MaxTickets : (enqueued >= k) ~> TaskSettled(k)

\* Every task of a run with a failed attempt and its retry has settled, the
\* retry behind the tasks of the other requests.
EveryTaskSettlesWitness ==
    /\ enqueued = MaxTickets
    /\ \A k \in 1 .. MaxTickets : TaskSettled(k)
    /\ cin7Queue = <<>>
    /\ ~cin7QueueProcessing

\* The request has passed the authentication of the handler that serves it.
Authenticated(c) ==
    IF env.handler = "flow"
    THEN c.method = "POST" /\ (env.secretSet => c.sig = "good")
    ELSE allowedShop(env, c) /\ verifyShopifyHmac(env, c) = "true"

\* The request fails it: a shop outside the allow-list, or a signature or
\* shared secret that is missing or does not match.
FailsAuthentication(c) ==
    \/ c.shop \in {"absent", "other"}
    \/ c.sig \in {"absent", "bad"}

\* C8, as claimed: in every handler a request that fails authentication is
\* answered 401 and no Cin7 call is made or enqueued for it.
AuthFailureAnswered401 ==
    \A k \in DOMAIN calls :
        FailsAuthentication(calls[k]) =>
            /\ calls[k].downstream = 0
            /\ calls[k].pc = "done" => calls[k].status = 401

\* server.js has answered 200 to a request whose signature does not match.
AuthFailureAnswered200 ==
    \E k \in DOMAIN calls :
        /\ env.handler = "server"
        /\ calls[k].sig = "bad"
        /\ calls[k].pc = "done"
        /\ calls[k].status = 200

\* The addresses the mapper of the deployed handler looks at.
EmailChain == IF env.handler = "create" THEN CreateEmailChain ELSE ServerEmailChain

\* C9, as claimed: an authenticated order without email and customer.email is
\* answered 200 and no Cin7 request is made or enqueued for it.
MissingBothEmailsSkipped ==
    \A k \in DOMAIN calls :
        /\ env.handler # "flow"
        /\ Authenticated(calls[k])
        /\ calls[k].email = "absent"
        /\ calls[k].customerEmail = "absent"
        => /\ calls[k].downstream = 0
           /\ calls[k].pc = "done" => calls[k].status = 200

\* C9: an authenticated order in which the mapper finds no email at all (in
\* create.js neither email, customer.email, billing_address.email nor
\* shipping_address.email; in server.js neither of the first two) is answered
\* 200 and no Cin7 request, contact lookup or quote, is made or enqueued.
NoEmailSkipped ==
    \A k \in DOMAIN calls :
        /\ env.handler # "flow"
        /\ Authenticated(calls[k])
        /\ \A i \in DOMAIN EmailChain : calls[k][EmailChain[i]] = "absent"
        => /\ calls[k].downstream = 0
           /\ calls[k].pc = "done"
           /\ calls[k].status = 200

\* create.js has answered 200 to an authenticated, tagged order without any
\* of the four addresses, and has called nothing.
NoEmailSkippedWitness ==
    \E k \in DOMAIN calls :
        /\ env.handler = "create"
        /\ Authenticated(calls[k])
        /\ calls[k].tag = "yes"
        /\ \A i \in DOMAIN CreateEmailChain :
                calls[k][CreateEmailChain[i]] = "absent"
        /\ calls[k].status = 200
        /\ calls[k].downstream = 0

\* A body that is not JSON or, for the flow handler, has no line_items array.
Malformed(c) ==
    \/ c.body = "unparseable"
    \/ /\ env.handler = "flow"
       /\ c.body = "null" \/ c.items \in {"absent", "malformed"}

\* C10, as claimed: in every handler an authenticated request with malformed
\* input is answered 400 and causes no Cin7 call.
MalformedAnswered400 ==
    \A k \in DOMAIN calls :
        Authenticated(calls[k]) /\ Malformed(calls[k]) =>
            /\ calls[k].downstream = 0
            /\ calls[k].pc = "done" => calls[k].status = 400

\* server.js has answered 200 to an authenticated body that is not JSON.
MalformedAnswered200 ==
    \E k \in DOMAIN calls :
        /\ env.handler = "server"
        /\ Authenticated(calls[k])
        /\ calls[k].body = "unparseable"
        /\ calls[k].status = 200

\* C11: in create.js the quote POST follows the contact lookup however the
\* lookup ends and never precedes its end: a handler past the lookup has made
\* its second cin7Request, the lookup's request has then resolved or been
\* rejected for good, and quote.memberId is set only after a resolved lookup
\* whose first contact has an id.
QuoteFollowsLookup ==
    \A k \in DOMAIN calls :
        LET c == calls[k]
        IN  env.handler = "create" /\ c.lookup # 0 =>
                /\ c.pc = "lookup" => c.downstream = 1 /\ c.req = c.lookup
                /\ c.pc # "lookup" =>
                        /\ c.downstream = 2
                        /\ c.req > c.lookup
                        /\ reqs[c.lookup].state \in {"resolved", "rejected"}
                /\ c.memberId = "present" =>
                        /\ reqs[c.lookup].state = "resolved"
                        /\ c.contact = "withId"
                /\ c.contact \in {"none", "withoutId"} => c.memberId = "absent"

\* One handler posted its quote after a rejected lookup, another after a
\* lookup that found a contact with an id, whose id the quote carries.
QuoteFollowsLookupWitness ==
    \E k, m \in DOMAIN calls :
        /\ env.handler = "create"
        /\ calls[k].lookup # 0 /\ calls[m].lookup # 0
        /\ reqs[calls[k].lookup].state = "rejected"
        /\ calls[k].req > calls[k].lookup
        /\ calls[k].memberId = "absent"
        /\ reqs[calls[m].lookup].state = "resolved"
        /\ calls[m].memberId = "present"
        /\ calls[m].req > calls[m].lookup

\* C12: the synchronous handlers answer with the mapped status.  create.js,
\* once its quote POST has settled: 502 when cin7Request rejected it, 200
\* otherwise.  The flow handler, once fetch has returned a status: 200 for a
\* 2xx, the status itself for 429, 500, 502, 503 and 504, 400 for any other.
MappedErrorStatus ==
    \A k \in DOMAIN calls :
        LET c == calls[k]
        IN  /\ env.handler = "create" /\ c.pc = "done" /\ c.downstream = 2 =>
                    c.status = IF reqs[c.req].state = "rejected" THEN 502 ELSE 200
            /\ env.handler = "flow" /\ c.omniStatus # 0 =>
                    c.status = IF c.omniStatus \in 200 .. 299 THEN 200
                               ELSE IF c.omniStatus \in {429, 500, 502, 503, 504}
                               THEN c.omniStatus
                               ELSE 400

\* create.js has answered 502 to one request, whose quote POST was rejected,
\* and 200 to another, whose quote POST resolved.
MappedErrorStatusWitness ==
    \E k, m \in DOMAIN calls :
        /\ env.handler = "create"
        /\ calls[k].downstream = 2 /\ calls[m].downstream = 2
        /\ reqs[calls[k].req].state = "rejected" /\ calls[k].status = 502
        /\ reqs[calls[m].req].state = "resolved" /\ calls[m].status = 200

\* C13: in the ack-first handlers no request is answered twice, a Cin7 call
\* is started only for a request already answered 200 and answered before the
\* first call started, that answer stays whatever the calls come to, and an
\* authenticated webhook whose handling has ended was answered once, with 200.
AckBeforeDownstream ==
    \A k \in DOMAIN calls :
        LET c == calls[k]
        IN  /\ c.sent <= 1
            /\ c.downstream > 0 =>
                    /\ c.sent = 1
                    /\ c.status = 200
                    /\ c.callsAtSend = 0
            /\ Authenticated(c) /\ c.pc = "done" => c.sent = 1 /\ c.status = 200

\* The bridge has acknowledged a webhook with 200 and then seen every one of
\* its attempts fail; another webhook's push succeeded.
AckBeforeDownstreamWitness ==
    \E k, m \in DOMAIN calls :
        /\ env.handler = "bridge"
        /\ calls[k].pc = "done" /\ calls[m].pc = "done"
        /\ calls[k].attempt = Retries
        /\ calls[k].downstream = Retries + 1
        /\ calls[k].sent = 1 /\ calls[k].status = 200
        /\ calls[m].downstream = 1
        /\ calls[m].sent = 1 /\ calls[m].status = 200

\* C14, as claimed: every request to the create.js handler that has ended was
\* answered with exactly one response sent by the handler, and no exception
\* left the handler.
OneResponseNoEscape ==
    \A k \in DOMAIN calls :
        env.handler = "create" /\ calls[k].pc = "done" =>
            /\ calls[k].sent = 1
            /\ calls[k].escaped = "no"

\* A correctly signed request whose body is the JSON value null has ended
\* with an exception leaving the create.js handler, which sent no response.
NullBodyEscapes ==
    \E k \in DOMAIN calls :
        /\ env.handler = "create"
        /\ Authenticated(calls[k])
        /\ calls[k].body = "null"
        /\ calls[k].pc = "done"
        /\ calls[k].escaped = "yes"
        /\ calls[k].sent = 0

\* C15, as claimed: a process started without its webhook secret or without
\* its Cin7 credentials serves no request at all.
NoRequestWithoutConfiguration ==
    ~(env.secretSet /\ env.credsSet) => calls = <<>>

\* create.js, started without Cin7 credentials, has verified a webhook,
\* mapped it and forwarded the contact lookup and the quote to Cin7.
ForwardedWithoutCredentials ==
    \E k \in DOMAIN calls :
        /\ env.handler = "create"
        /\ ~env.credsSet
        /\ Authenticated(calls[k])
        /\ calls[k].downstream = 2
        /\ calls[k].pc = "done"

\* Some line of taxLines has a rate.
HasRate(taxLines) == \E i \in DOMAIN taxLines : taxLines[i] # <<>>

\* percent is the rate, in percent, of the first line of taxLines that has one.
IsFirstRate(taxLines, percent) ==
    \E i \in DOMAIN taxLines :
        /\ taxLines[i] # <<>>
        /\ percent = <<100 * taxLines[i][1]>>
        /\ \A j \in 1 .. i - 1 : taxLines[j] = <<>>

\* The tax lines of the shipping line of the draft, if it has one.
FreightLines(d) ==
    IF d.shipping_line = <<>> THEN <<>> ELSE d.shipping_line[1].tax_lines

\* C16: for a tax-inclusive draft resolveDefaultInclusiveTaxRate returns the
\* first rate there is among the order's tax lines, the tax lines of the
\* first line item that has a rate, the shipping line's tax lines and the
\* fallback of 10 percent; for any other draft it returns no rate.
DefaultRateOrder ==
    resolved # <<>> =>
        LET d == draft[1]
            r == resolved[1]
            rated == {i \in DOMAIN d.line_items : HasRate(d.line_items[i].tax_lines)}
        IN  IF ~d.taxes_included THEN r.rate = <<>>
            ELSE IF HasRate(d.tax_lines)
            THEN IsFirstRate(d.tax_lines, r.rate) /\ r.source = "order"
            ELSE IF rated # {}
            THEN /\ r.source = "line-item"
                 /\ \E i \in rated :
                        /\ \A j \in rated : i <= j
                        /\ IsFirstRate(d.line_items[i].tax_lines, r.rate)
            ELSE IF HasRate(FreightLines(d))
            THEN IsFirstRate(FreightLines(d), r.rate) /\ r.source = "freight"
            ELSE r.rate = <<10 * Scale>> /\ r.source = "fallback"

\* The rate of the shipping line was returned for a tax-inclusive draft whose
\* order tax lines and line items are there, but without a rate.
DefaultRateOrderWitness ==
    /\ resolved # <<>>
    /\ draft[1].taxes_included
    /\ Len(draft[1].tax_lines) = MaxTaxLines
    /\ Len(draft[1].line_items) = MaxLineItems
    /\ resolved[1].source = "freight"
    /\ resolved[1].rate = <<20 * Scale>>

\* The rate, in percent, of the first of the sources (arrays of tax lines,
\* most preferred first) that has a rate, and the fallback of 10 otherwise.
ChainRate(sources) ==
    LET rated == {k \in DOMAIN sources : HasRate(sources[k])}
        first == sources[CHOOSE k \in rated : \A j \in rated : k <= j]
        line == CHOOSE i \in DOMAIN first :
                    first[i] # <<>> /\ \A j \in 1 .. i - 1 : first[j] = <<>>
    IN  IF rated = {} THEN 10 * Scale ELSE 100 * first[line][1]

\* exclusive is inclusive / (1 + percent / 100) rounded to the cent, a half
\* cent going up.
IsExclusiveOf(exclusive, inclusive, percent) ==
    LET den == 100 * Scale + percent
        num == inclusive * 100 * Scale
    IN  /\ 2 * (exclusive * den - num) <= den
        /\ 2 * (num - exclusive * den) < den

\* C17, as claimed: the price of every line item of a tax-inclusive draft is
\* converted with the item's own rate, else the order's, else the shipping
\* line's, else the fallback.
LineRateOwnOrderFreight ==
    quote # <<>> /\ draft[1].taxes_included =>
        \A i \in DOMAIN draft[1].line_items :
            LET li == draft[1].line_items[i]
            IN  li.price # <<>> =>
                    IsExclusiveOf(quote[1].lineItems[i].unitPrice, li.price[1],
                                  ChainRate(<<li.tax_lines, draft[1].tax_lines,
                                              FreightLines(draft[1])>>))

\* C17: the price of every line item of a tax-inclusive draft is converted
\* with the item's own rate, else the order's, else the rate of the first
\* line item of the draft that has one, else the shipping line's, else the
\* fallback.
LineRateOwnOrderItemsFreight ==
    quote # <<>> /\ draft[1].taxes_included =>
        \A i \in DOMAIN draft[1].line_items :
            LET d == draft[1]
                li == d.line_items[i]
            IN  li.price # <<>> =>
                    IsExclusiveOf(quote[1].lineItems[i].unitPrice, li.price[1],
                                  ChainRate(<<li.tax_lines, d.tax_lines>>
                                            \o [j \in DOMAIN d.line_items |->
                                                    d.line_items[j].tax_lines]
                                            \o <<FreightLines(d)>>))

\* A first line item at 110.00 without a rate, in an order without a rate
\* whose second item is taxed at 25% and whose shipping at 20%, was mapped to
\* 88.00: the rate of the second item was used.
LineRateFromOtherItem ==
    /\ quote # <<>>
    /\ draft[1].taxes_included
    /\ ~HasRate(draft[1].tax_lines)
    /\ Len(draft[1].line_items) = 2
    /\ draft[1].line_items[1].tax_lines = <<>>
    /\ draft[1].line_items[1].price = <<11000>>
    /\ draft[1].line_items[2].tax_lines = << <<25>> >>
    /\ FreightLines(draft[1]) = << <<20>> >>
    /\ quote[1].lineItems[1].unitPrice = 8800

\* C18: for a tax-inclusive draft the mapper converts each line price and
\* line discount with the rate resolved for the line, the shipping cost with
\* the rate resolved for the shipping line and the order discount with the
\* rate resolved for the order, each amount by itself; for any other draft
\* the four amounts are the draft's own.
AmountsConvertedEach ==
    quote # <<>> =>
        LET d == draft[1]
            q == quote[1]
            orderSources == <<d.tax_lines>>
                            \o [j \in DOMAIN d.line_items |-> d.line_items[j].tax_lines]
                            \o <<FreightLines(d)>>
            amount(x) == IF x = <<>> THEN 0 ELSE x[1]
            orderDiscount == IF d.applied_discount = <<>> THEN 0
                             ELSE amount(d.applied_discount[1].amount)
            same(out, raw, sources) ==
                IF d.taxes_included
                THEN IsExclusiveOf(out, raw, ChainRate(sources))
                ELSE out = raw
        IN  /\ \A i \in DOMAIN d.line_items :
                LET li == d.line_items[i]
                    sources == <<li.tax_lines>> \o orderSources
                IN  /\ same(q.lineItems[i].unitPrice, amount(li.price), sources)
                    /\ same(q.lineItems[i].discount, amount(li.applied_discount),
                            sources)
            /\ same(q.discountTotal, orderDiscount, orderSources)
            /\ d.shipping_line # <<>> /\ d.shipping_line[1].price # <<>> =>
                    same(q.freightTotal, d.shipping_line[1].price[1],
                         <<FreightLines(d)>> \o orderSources)

\* A line at 110.00 with a discount of 11.00 and a line-level rate of 10% was
\* mapped to 100.00 and 10.00, next to shipping at 22.00 taxed at 20% mapped
\* to 18.33 and an order discount of 33.00 at the order's 5% mapped to 31.43.
AmountsConvertedEachWitness ==
    /\ quote # <<>>
    /\ draft[1].taxes_included
    /\ Len(draft[1].line_items) = 1
    /\ draft[1].line_items[1].tax_lines = << <<10>> >>
    /\ draft[1].tax_lines = << <<5>> >>
    /\ FreightLines(draft[1]) = << <<20>> >>
    /\ quote[1].lineItems[1].unitPrice = 10000
    /\ quote[1].lineItems[1].discount = 1000
    /\ "freightTotal" \in DOMAIN quote[1]
    /\ quote[1].freightTotal = 1833
    /\ quote[1].discountTotal = 3143

\* C19, as claimed: for every amount and every rate convertInclusiveAmount
\* accepts (finite, above -100 percent) the result is the amount divided by
\* 1 + rate and rounded to the cent, and multiplying it by 1 + rate and
\* rounding to the cent gives the amount back to within one cent.
RoundTripAnyRate ==
    conversion # <<>> /\ conversion[1].exclusive # <<>> =>
        LET c == conversion[1]
            e == c.exclusive[1]
            p == c.taxRatePercent[1]
            back == RoundHalfUp(e * (100 * Scale + p), 100 * Scale)
        IN  c.taxRatePercent # <<>> /\ p > 0 - 100 * Scale =>
                /\ IsExclusiveOf(e, c.amount, p)
                /\ back - c.amount \in {0 - 1, 0, 1}

\* C19: the same for the rates above -100 percent and up to 200 percent.
RoundTripUpTo200 ==
    conversion # <<>> /\ conversion[1].exclusive # <<>> =>
        LET c == conversion[1]
            e == c.exclusive[1]
            p == c.taxRatePercent[1]
            back == RoundHalfUp(e * (100 * Scale + p), 100 * Scale)
        IN  c.taxRatePercent # <<>> /\ p > 0 - 100 * Scale /\ p <= 200 * Scale =>
                /\ IsExclusiveOf(e, c.amount, p)
                /\ back - c.amount \in {0 - 1, 0, 1}

\* 1.00 at 200 percent was converted to 0.33, which gives 0.99 back.
RoundTripWitness ==
    /\ conversion # <<>>
    /\ conversion[1].amount = 100
    /\ conversion[1].taxRatePercent = <<200 * Scale>>
    /\ conversion[1].exclusive = <<33>>

\* C20, as claimed: the document the mapper returns has no field, at the top
\* level or inside a line item, that is null, undefined or the empty string.
NoEmptyFieldAnywhere ==
    quote # <<>> =>
        /\ \A k \in DOMAIN quote[1] \cap TextKeys :
                quote[1][k] \notin {Null, Undefined, ""}
        /\ \A i \in DOMAIN quote[1].lineItems :
                /\ quote[1].lineItems[i].code # ""
                /\ quote[1].lineItems[i].name # ""
                /\ quote[1].lineItems[i].option1 # ""

\* C20: the document the mapper returns has no top-level field that is null,
\* undefined or the empty string.
NoEmptyTopLevelField ==
    quote # <<>> =>
        \A k \in DOMAIN quote[1] \cap TextKeys :
            quote[1][k] \notin {Null, Undefined, ""}

\* A draft without name, id, email, note, discount and shipping line, whose
\* one line item has no sku, was mapped to a document without reference,
\* memberEmail, internalComments, discountDescription and freightDescription
\* whose line item has the code "".
NoEmptyTopLevelFieldWitness ==
    /\ quote # <<>>
    /\ draft[1].name = "" /\ draft[1].id = "" /\ draft[1].note = ""
    /\ DOMAIN quote[1] \cap {"reference", "memberEmail", "internalComments",
                             "discountDescription", "freightDescription",
                             "freightTotal"} = {}
    /\ {"taxStatus", "currencyCode", "discountTotal", "lineItems"}
            \subseteq DOMAIN quote[1]
    /\ Len(quote[1].lineItems) = 1
    /\ quote[1].lineItems[1].code = ""

\* ------------------------------------------------------------ the signature

\* The longest raw body, in bytes.
MaxBody == 2

\* crypto.createHmac("sha256", secret).update(rawBody).digest("base64"), taken
\* as the ideal keyed hash: a string of one fixed length that differs as soon
\* as the secret or one byte of the body differs.
hmacSha256Base64(secret, rawBody) ==
    <<secret, Len(rawBody)>>
    \o [i \in 1 .. MaxBody |-> IF i <= Len(rawBody) THEN rawBody[i] ELSE 0]

\* crypto.timingSafeEqual(ab, bb): a RangeError when the lengths differ.
cryptoTimingSafeEqual(ab, bb) ==
    IF Len(ab) # Len(bb) THEN "throws"
    ELSE IF ab = bb THEN "true" ELSE "false"

\* The comparison without the test of the lengths.
timingSafeEqualUnguarded(a, b) == cryptoTimingSafeEqual(a, b)

\* timingSafeEqual(a, b): the lengths are compared first.
timingSafeEqual(a, b) ==
    IF Len(a) # Len(b) THEN "false" ELSE cryptoTimingSafeEqual(a, b)

\* verifyHmac(secret, rawBody, received) is verifyShopifyHmac(rawBody, headers)
\* on the bytes: received is the header x-shopify-hmac-sha256, <<>> when the
\* request has none and <<h>> when it is the string h (the empty string is
\* falsy); secret is SHOPIFY_WEBHOOK_SECRET, <<>> when undefined, and
\* createHmac throws on an undefined key.
verifyHmac(secret, rawBody, received) ==
    IF received = <<>> \/ received[1] = <<>> THEN "false"
    ELSE IF secret = <<>> THEN "throws"
    ELSE timingSafeEqual(hmacSha256Base64(secret[1], rawBody), received[1])

\* What verifyShopifyHmac is applied to.  The secret is undefined or one of
\* two; the raw body is any string of at most MaxBody bytes, a byte being 0
\* or 1; the header is missing, the empty string, a digest (of this body or
\* of another, under this secret or the other), a digest cut by one character
\* or a digest longer by one.
Verifications ==
    LET Bytes == {0, 1}
        Secrets == {1, 2}
        RawBodies == UNION {[1 .. n -> Bytes] : n \in 0 .. MaxBody}
        Digests == {hmacSha256Base64(k, b) : k \in Secrets, b \in RawBodies}
        ReceivedHeaders ==
            {<<>>, << <<>> >>}
            \cup {<<d>> : d \in Digests}
            \cup {<<SubSeq(d, 1, Len(d) - 1)>> : d \in Digests}
            \cup {<<Append(d, x)>> : d \in Digests, x \in Bytes}
    IN  [secret : Option(Secrets), rawBody : RawBodies,
         received : ReceivedHeaders, verdict : {<<>>}]

\* verifyShopifyHmac(rawBody, req.headers) is called.
VerifyHmac ==
    /\ verification # <<>>
    /\ verification[1].verdict = <<>>
    /\ verification' =
           <<[verification[1] EXCEPT !.verdict =
                  <<verifyHmac(verification[1].secret, verification[1].rawBody,
                               verification[1].received)>>]>>
    /\ GovernorUnchanged
    /\ UNCHANGED <<now, env, calls, processedEvents, draft, quote, resolved,
                   conversion>>

\* verifyShopifyHmac applied to a secret, a body and a header drawn from the
\* set above.
InitSignature ==
    /\ now = 0
    /\ cin7RecentRequests = <<>>
    /\ cin7Queue = <<>>
    /\ cin7QueueProcessing = FALSE
    /\ workers = <<>>
    /\ reqs = <<>>
    /\ enqueued = 0
    /\ lastTicket = 0
    /\ dispatchTimes = <<>>
    /\ calls = <<>>
    /\ processedEvents = {}
    /\ env = [handler |-> "create", secretSet |-> TRUE, shopListSet |-> TRUE,
              credsSet |-> TRUE]
    /\ draft = <<>>
    /\ quote = <<>>
    /\ resolved = <<>>
    /\ conversion = <<>>
    /\ verification \in {<<v>> : v \in Verifications}

SpecSignature == InitSignature /\ [][VerifyHmac]_vars

\* C21: verifyShopifyHmac returns true exactly when the signature header is
\* present and equals the base64 HMAC-SHA256 of the raw body under the shared
\* secret; with a secret configured it returns false, without throwing, for a
\* missing header, for the digest of a body that differs in one byte and for
\* a digest of the wrong length.
HmacAcceptsExactDigest ==
    \A i \in DOMAIN verification :
        LET v == verification[i]
            digest == hmacSha256Base64(v.secret[1], v.rawBody)
            OneByteFlipped(a, b) ==
                /\ Len(a) = Len(b)
                /\ Cardinality({j \in 1 .. Len(a) : a[j] # b[j]}) = 1
        IN  v.verdict # <<>> =>
              /\ v.verdict[1] = "true" <=>
                     /\ v.secret # <<>>
                     /\ v.received # <<>>
                     /\ v.received[1] = digest
              /\ v.secret # <<>> => v.verdict[1] \in {"true", "false"}
              /\ v.received = <<>> => v.verdict[1] = "false"
              /\ v.secret # <<>> /\ v.received # <<>>
                     /\ Len(v.received[1]) # Len(digest)
                     => v.verdict[1] = "false"
              /\ \A w \in Verifications :
                     /\ v.secret # <<>>
                     /\ OneByteFlipped(w.rawBody, v.rawBody)
                     /\ v.received = <<hmacSha256Base64(v.secret[1], w.rawBody)>>
                     => v.verdict[1] = "false"

\* With a secret configured, the digest of a body of MaxBody bytes cut by one
\* character or longer by one has been rejected.
HmacAcceptsExactDigestWitness ==
    /\ verification # <<>>
    /\ verification[1].verdict = <<"false">>
    /\ verification[1].secret # <<>>
    /\ verification[1].received # <<>>
    /\ verification[1].received[1] # <<>>
    /\ Len(verification[1].rawBody) = MaxBody
    /\ Len(verification[1].received[1])
           # Len(hmacSha256Base64(verification[1].secret[1],
                                  verification[1].rawBody))

\* ------------------------------------------------------------ the tasks

\* C22: every task pushed by scheduleCin7Request (one per attempt of a
\* request) is in exactly one place: waiting in the queue, once; shifted and
\* in flight with the worker, once; or settled.  Its fn has been called once
\* as soon as it has left the queue and never before, task.resolve or
\* task.reject has run once as soon as the call has settled and never before,
\* and nothing is dispatched for a request whose last task has settled.
TaskLifecycle ==
    \A r \in DOMAIN reqs :
        LET queued == Cardinality({i \in DOMAIN cin7Queue : cin7Queue[i].req = r})
            flying == Cardinality({i \in InFlight : workers[i].task.req = r})
            settled == IF reqs[r].state = "scheduled" THEN 0 ELSE 1
        IN  /\ queued + flying + settled = 1
            /\ reqs[r].dispatches = reqs[r].attempt - queued
            /\ reqs[r].settles = reqs[r].attempt - queued - flying
            /\ \A i, j \in DOMAIN cin7Queue :
                   cin7Queue[i].ticket = cin7Queue[j].ticket => i = j
            /\ \A i \in DOMAIN cin7Queue : \A j \in InFlight :
                   cin7Queue[i].ticket # workers[j].task.ticket

\* A request has had its first task rejected and its second task resolved,
\* each dispatched once and settled once, while another task is in flight and
\* a third waits in the queue.
TaskLifecycleWitness ==
    /\ \E r \in DOMAIN reqs :
           /\ reqs[r].state = "resolved"
           /\ reqs[r].attempt = 2
           /\ reqs[r].dispatches = 2
           /\ reqs[r].settles = 2
    /\ InFlight # {}
    /\ cin7Queue # <<>>

\* ------------------------------------------------------------ the log

\* C23: the rate-limit log is in non-decreasing order in every reachable
\* state, and every step leaves of it a suffix (the entries dropped from the
\* front are all more than 60 000 ms old) to which at most Date.now() is
\* appended, at the tail and together with the dispatch of a task; a task is
\* dispatched only in a step in which the delay computed for the current time
\* on the log as it stood is 0.
LogAppendOnlyFrontPruned ==
    /\ [](\A i, j \in DOMAIN cin7RecentRequests :
              i <= j => cin7RecentRequests[i] <= cin7RecentRequests[j])
    /\ [][\E d \in 0 .. Len(cin7RecentRequests) :
              LET rest == SubSeq(cin7RecentRequests, d + 1,
                                 Len(cin7RecentRequests))
              IN  /\ \A i \in 1 .. d : now - cin7RecentRequests[i] > MinuteMs
                  /\ \/ /\ cin7RecentRequests' = rest
                        /\ dispatchTimes' = dispatchTimes
                     \/ /\ cin7RecentRequests' = Append(rest, now)
                        /\ dispatchTimes' = Append(dispatchTimes, now)
                        /\ cin7Queue # <<>> \/ enqueued' > enqueued
                        /\ cin7DelayUntilAllowed(cin7RecentRequests, now) = 0
         ]_vars

\* More than 60 tasks have been dispatched, the worker has slept for both
\* limits, and the entries of the first second have been dropped from the
\* front of the log while later ones are kept.
LogAppendOnlyFrontPrunedWitness ==
    /\ Len(dispatchTimes) > PerMinute
    /\ cin7RecentRequests # <<>>
    /\ Len(cin7RecentRequests) < Len(dispatchTimes)
    /\ cin7RecentRequests[1] > dispatchTimes[1]
    /\ cin7RecentRequests[Len(cin7RecentRequests)]
           = dispatchTimes[Len(dispatchTimes)]

\* ------------------------------------------------------------ the worker

\* C24: whenever control is back with the event loop, a task waiting in the
\* queue, or a request waiting for its task, has a worker: the flag
\* cin7QueueProcessing is set exactly while a runCin7Queue loop is suspended
\* in its sleep or in its call of task.fn, so it is false again once the
\* queue has drained, also after a call that failed; and a push made while
\* the flag is false starts a worker.
NoStrandedTask ==
    /\ [](/\ cin7Queue # <<>> => cin7QueueProcessing
          /\ cin7QueueProcessing <=> workers # <<>>
          /\ \A r \in DOMAIN reqs :
                 reqs[r].state = "scheduled" => cin7QueueProcessing)
    /\ [][~cin7QueueProcessing /\ enqueued' > enqueued
              => cin7QueueProcessing' /\ workers' # <<>>]_vars

\* The only request there is had its first call fail, the queue drained and
\* the flag went back to false during the backoff; the retry pushed after it
\* is in flight with a new worker.
NoStrandedTaskWitness ==
    /\ Len(reqs) = 1
    /\ reqs[1].state = "scheduled"
    /\ reqs[1].attempt = 2
    /\ reqs[1].dispatches = 2
    /\ reqs[1].settles = 1
    /\ cin7QueueProcessing
    /\ cin7Queue = <<>>

\* ------------------------------------------------------------ the calls

\* C25: every HTTP call create.js makes to Cin7 is a task of the queue.  The
\* handlers have made one cin7Request per Cin7 call, every attempt of a
\* request has pushed one task, and every pushed task waits in the queue or
\* was dispatched by the worker, which recorded the time of the dispatch: the
\* rate-limit log is the tail of the dispatch times, failed attempts and
\* retries included, less the entries older than 60 s.  A retry is pushed
\* at the tail of the queue, not before its backoff is over, and a request
\* in its backoff holds neither the worker nor a place in the queue.
EveryCallThroughWorker ==
    /\ [](LET n == Len(dispatchTimes)
              m == Len(cin7RecentRequests)
          IN  /\ env.handler = "create" =>
                     Cardinality({p \in (DOMAIN calls) \X (1 .. 2) :
                                     p[2] <= calls[p[1]].downstream}) = Len(reqs)
              /\ Cardinality({p \in (DOMAIN reqs) \X (1 .. MaxAttempts) :
                                 p[2] <= reqs[p[1]].attempt}) = enqueued
              /\ enqueued = n + Len(cin7Queue)
              /\ m <= n
              /\ cin7RecentRequests = SubSeq(dispatchTimes, n - m + 1, n)
              /\ \A k \in 1 .. n - m : dispatchTimes[k] < now - MinuteMs
              /\ \A i \in InFlight :
                     /\ workers[i].task.ticket <= n
                     /\ reqs[workers[i].task.req].dispatchedAt
                            = dispatchTimes[workers[i].task.ticket]
              /\ \A r \in DOMAIN reqs :
                     reqs[r].state = "backoff" =>
                         /\ \A i \in DOMAIN cin7Queue : cin7Queue[i].req # r
                         /\ \A i \in InFlight : workers[i].task.req # r)
    /\ [][\A r \in DOMAIN reqs :
              reqs[r].state = "backoff" /\ reqs'[r].state # "backoff" =>
                  /\ now >= reqs[r].notBefore
                  /\ enqueued' = enqueued + 1
                  /\ IF cin7Queue = <<>> /\ dispatchTimes' # dispatchTimes
                     THEN \E i \in DOMAIN workers' :
                              workers'[i].task = [req |-> r, ticket |-> enqueued']
                     ELSE /\ cin7Queue' # <<>>
                          /\ cin7Queue'[Len(cin7Queue')]
                                 = [req |-> r, ticket |-> enqueued']
         ]_vars

\* A handler of create.js has its contact lookup in backoff after a failed
\* call that is in the log, and the worker has since dispatched the call of
\* another request, which is in flight.
EveryCallThroughWorkerWitness ==
    /\ env.handler = "create"
    /\ \E k \in DOMAIN calls : \E i \in InFlight :
           /\ calls[k].pc = "lookup"
           /\ reqs[calls[k].req].state = "backoff"
           /\ reqs[calls[k].req].dispatches = 1
           /\ workers[i].task.req # calls[k].req
           /\ workers[i].task.ticket > 1
           /\ Len(cin7RecentRequests) = Len(dispatchTimes)
           /\ Len(dispatchTimes) >= 2

\* ------------------------------------------------------------ the retries

\* C26, as claimed: fetchWithRetries makes at most 4 attempts, goes on to
\* another attempt only after a 429, a 5xx or a network error (status 0), and
\* after a 4xx other than 429 raises the error at once, after that single
\* attempt.
FetchRetriesOnlyTemporary ==
    \A k \in DOMAIN calls :
        env.handler = "bridge" =>
            /\ calls[k].attempt <= Retries
            /\ calls[k].pc = "sleep" =>
                   calls[k].omniStatus \in {0, 429} \cup (500 .. 599)
            /\ IsPermanentStatus(calls[k].omniStatus) =>
                   calls[k].pc = "done"

\* The first fetch was answered 404 and fetchWithRetries sleeps before its
\* second attempt.
PermanentErrorRetried ==
    \E k \in DOMAIN calls :
        /\ env.handler = "bridge"
        /\ calls[k].pc = "sleep"
        /\ calls[k].attempt = 0
        /\ calls[k].omniStatus = 404

\* ------------------------------------------------------------ the duplicates

\* C27: in the idempotent server a delivery that arrives while its event id
\* carries a mark less than 24 hours old is answered 200 ("duplicate
\* ignored", before the body is read), makes no Cin7 call and leaves the
\* store as it is; a delivery whose id has no mark, or only one older than
\* 24 hours, is not answered as a duplicate.  A mark is written only when
\* the send of a delivery with that id has succeeded, with the time of that
\* moment, and a send that failed writes none.
DuplicateIgnoredWithinTtl ==
    [][env.handler = "idempotent" =>
          /\ Len(calls') > Len(calls) =>
                 LET c == calls'[Len(calls')]
                     ignored == /\ c.eventId # Unread
                                /\ c.body = Unread
                                /\ c.status = 200
                                /\ c.pc = "done"
                 IN  /\ c.eventId \notin {Unread, "none"}
                            /\ (\E p \in processedEvents :
                                    p[1] = c.eventId /\ now - p[2] < EVENT_TTL_MS)
                        => ignored /\ processedEvents' = processedEvents
                     /\ c.eventId # Unread
                            /\ (\A p \in processedEvents :
                                    p[1] = c.eventId => now - p[2] > EVENT_TTL_MS)
                        => ~ignored
                     /\ ignored => c.downstream = 0 /\ c.sent = 1
          /\ \A p \in processedEvents' \ processedEvents :
                 /\ p[2] = now
                 /\ \E k \in DOMAIN calls :
                        /\ calls[k].pc = "post"
                        /\ calls[k].eventId = p[1]
                        /\ calls'[k].pc = "done"
                        /\ calls'[k].omniStatus \in 200 .. 299
          /\ \A k \in DOMAIN calls :
                 /\ calls[k].pc = "post"
                 /\ calls'[k].pc = "done"
                 /\ calls'[k].omniStatus \notin 200 .. 299
                 => processedEvents' = processedEvents
      ]_vars

\* A delivery was sent to Cin7 and its event id marked; a second delivery
\* with the same id, arriving within 24 hours of the mark, was answered 200
\* before its body was read and has made no Cin7 call.
DuplicateIgnoredWithinTtlWitness ==
    /\ env.handler = "idempotent"
    /\ Len(calls) = 2
    /\ calls[1].eventId = "e1"
    /\ calls[1].omniStatus = 200
    /\ calls[2].eventId = "e1"
    /\ calls[2].body = Unread
    /\ calls[2].status = 200
    /\ calls[2].downstream = 0
    /\ \E p \in processedEvents : p[1] = "e1" /\ now - p[2] < EVENT_TTL_MS

\* C28, as claimed: in the idempotent server the quote of an event is sent to
\* Cin7 at most once within 24 hours, however the deliveries that carry its
\* id interleave: a delivery starts its send only when no other delivery of
\* the id has its send in flight and none has succeeded within the last 24
\* hours.
AtMostOneSendPerEvent ==
    [][env.handler = "idempotent" /\ Len(calls') > Len(calls) =>
          LET c == calls'[Len(calls')]
          IN  c.pc = "post" /\ c.eventId \notin {Unread, "none"} =>
                  /\ \A j \in DOMAIN calls :
                         calls[j].eventId = c.eventId => calls[j].pc # "post"
                  /\ \A p \in processedEvents :
                         p[1] = c.eventId => now - p[2] >= EVENT_TTL_MS
      ]_vars

\* Two deliveries of event e1 arrived within the same day, the second while
\* the send of the first was in flight; both quotes were accepted by Cin7.
SameEventSentTwice ==
    /\ env.handler = "idempotent"
    /\ Len(calls) = 2
    /\ now < EVENT_TTL_MS
    /\ \A k \in 1 .. 2 :
           /\ calls[k].eventId = "e1"
           /\ calls[k].downstream = 1
           /\ calls[k].pc = "done"
           /\ calls[k].omniStatus = 200

\* ------------------------------------------------------------ the tag

\* The most pieces the tags of a draft hold.
MaxTags == 2

\* The drafts the tag test is applied to: tags missing, a number, a string of
\* one to MaxTags pieces or an array of up to MaxTags entries; a piece is the
\* required tag as it is, the required tag in upper case between spaces,
\* another tag, a tag that only starts with the required one, or empty.
TagDrafts ==
    LET Pieces == {<<REQUIRED_DRAFT_TAG, "lower", "none">>,
                   <<REQUIRED_DRAFT_TAG, "upper", "spaces">>}
                  \cup {<<"quote", "upper", "none">>,
                        <<"qteedy-old", "lower", "none">>,
                        <<"", "lower", "spaces">>}
        Lists(lo) == UNION {[1 .. n -> Pieces] : n \in lo .. MaxTags}
    IN  {[tags |-> <<"absent", <<>>>>], [tags |-> <<"number", <<>>>>]}
        \cup {[tags |-> <<"string", l>>] : l \in Lists(1)}
        \cup {[tags |-> <<"array", l>>] : l \in Lists(0)}

\* create.js, fully configured, is sent one draft of TagDrafts.
InitTagged ==
    /\ now = 0
    /\ cin7RecentRequests = <<>>
    /\ cin7Queue = <<>>
    /\ cin7QueueProcessing = FALSE
    /\ workers = <<>>
    /\ reqs = <<>>
    /\ enqueued = 0
    /\ lastTicket = 0
    /\ dispatchTimes = <<>>
    /\ calls = <<>>
    /\ processedEvents = {}
    /\ env = [handler |-> "create", secretSet |-> TRUE, shopListSet |-> TRUE,
              credsSet |-> TRUE]
    /\ draft \in {<<d>> : d \in TagDrafts}
    /\ quote = <<>>
    /\ resolved = <<>>
    /\ conversion = <<>>
    /\ verification = <<>>

NextTagged ==
    \/ Receive(1)
    \/ \E k \in DOMAIN calls : CreateContinue(k)
    \/ \E i \in DOMAIN workers : \E o \in Outcomes : Settle(i, o, 0, MaxFailures)
    \/ \E r \in DOMAIN reqs : RetryWake(r)
    \/ \E t \in Deadlines : Tick(t)

SpecTagged == InitTagged /\ [][NextTagged]_vars

\* C29: in create.js an authenticated draft whose tags, an array or a string
\* of tags separated by commas, hold "qteedy" in no spelling (upper or lower
\* case, padded or not) is answered 200 without any Cin7 request and without
\* the mapper's emails being looked at; a draft that holds it in some
\* spelling passes the tag test, and goes on to Cin7 when it has an email.
UntaggedDraftSkipped ==
    \A k \in DOMAIN calls :
        LET c == calls[k]
            tags == draft[1].tags
            included == /\ tags[1] \in {"string", "array"}
                        /\ \E i \in DOMAIN tags[2] :
                               tags[2][i][1] = REQUIRED_DRAFT_TAG
        IN  Authenticated(c) /\ c.tag # Unread =>
                IF included
                THEN /\ c.tag = "yes"
                     /\ c.email # Unread
                     /\ HasMemberEmail(c, CreateEmailChain) => c.downstream >= 1
                ELSE /\ c.tag = "no"
                     /\ c.pc = "done"
                     /\ c.status = 200
                     /\ c.sent = 1
                     /\ c.downstream = 0
                     /\ \A i \in DOMAIN CreateEmailChain :
                            c[CreateEmailChain[i]] = Unread

\* A draft whose tags are the string of a tag that only starts with "qteedy"
\* and of another tag has been answered 200, nothing enqueued.
UntaggedDraftSkippedWitness ==
    /\ draft # <<>>
    /\ draft[1].tags[1] = "string"
    /\ Len(draft[1].tags[2]) = 2
    /\ draft[1].tags[2][1][1] = "qteedy-old"
    /\ Len(calls) = 1
    /\ calls[1].tag = "no"
    /\ calls[1].status = 200
    /\ calls[1].downstream = 0
    /\ enqueued = 0

\* ------------------------------------------------------------ totality

\* C30, as claimed: the mapper returns a document for every draft, whichever
\* of its optional fields are missing, so that an authenticated draft (with
\* the required tag, in create.js) that has an email the mapper looks at is
\* never dropped: the handler goes on to Cin7 with it.
DraftWithEmailNeverDropped ==
    \A k \in DOMAIN calls :
        /\ env.handler \in {"create", "server"}
        /\ Authenticated(calls[k])
        /\ calls[k].body = "object"
        /\ calls[k].items \in {"absent", "array"}
        /\ env.handler = "create" => calls[k].tag = "yes"
        /\ HasMemberEmail(calls[k], EmailChain)
        => calls[k].downstream >= 1

\* server.js was sent a signed draft with an email and without shipping_line:
\* it has answered 200 from its catch and has called nothing.
DroppedWithoutShippingLine ==
    \E k \in DOMAIN calls :
        /\ env.handler = "server"
        /\ Authenticated(calls[k])
        /\ calls[k].email = "present"
        /\ calls[k].shippingLine = "absent"
        /\ calls[k].pc = "done"
        /\ calls[k].status = 200
        /\ calls[k].downstream = 0

====
